---- MODULE Spec2Model ----
(***************************************************************************)
(* Model of the pitch_perfect evaluation and reconstruction engine:        *)
(*   llm_evaluator.py      LLMEvaluator (parser, validator, retry loop,    *)
(*                         heuristic fallback scorer)                      *)
(*   gemini_evaluator.py   GeminiEvaluator (generation wrapper, parser)    *)
(*   ppt_reconstructor.py  PPTReconstructor.refine_structure / create_ppt  *)
(*   main.py               /reconstruct/chat endpoint                      *)
(*                                                                         *)
(* Scores are kept in tenths (7.5 is 75) so that the arithmetic is exact.  *)
(* Generator output is a sequence of JSON lexemes; problem statements and  *)
(* summaries are sequences of characters.                                  *)
(***************************************************************************)
EXTENDS Integers, Sequences, FiniteSets, TLC

(***************************************************************************)
(* JSON values, as json.loads builds them.                                 *)
(***************************************************************************)
Num(n) == [t |-> "num", n |-> n]
Str(s) == [t |-> "str", s |-> s]
Null == [t |-> "null"]
List(l) == [t |-> "list", l |-> l]
Obj(f) == [t |-> "obj", o |-> f]

EmptyMap == [k \in {} |-> Null]

\* d[k] = v, as Python's item assignment on a dict
Put(d, k, v) == [x \in (DOMAIN d) \cup {k} |-> IF x = k THEN v ELSE d[x]]

\* the values Python's truth test accepts
Truthy(v) ==
    CASE v.t = "null" -> FALSE
      [] v.t = "num"  -> v.n # 0
      [] v.t = "str"  -> v.s # ""
      [] v.t = "list" -> v.l # <<>>
      [] v.t = "obj"  -> DOMAIN v.o # {}

(***************************************************************************)
(* Lexemes of a generated text.  Whitespace is not represented; a word is  *)
(* any run of characters that is no JSON lexeme and holds no brace and no  *)
(* backtick.                                                               *)
(***************************************************************************)
LB == [k |-> "{"]
RB == [k |-> "}"]
LK == [k |-> "["]
RK == [k |-> "]"]
COLON == [k |-> ":"]
COMMA == [k |-> ","]
TNULL == [k |-> "null"]
TNUM(n) == [k |-> "num", n |-> n]
TSTR(s) == [k |-> "str", s |-> s]
WORD == [k |-> "word"]
FENCE == [k |-> "fence"]
FENCEJSON == [k |-> "fence_json"]

(***************************************************************************)
(* json.loads on a lexeme sequence: a recursive-descent parse.  A parse    *)
(* result is [ok, v, i]: success, the value, the index after the value.    *)
(***************************************************************************)
ParseFail == [ok |-> FALSE, v |-> Null, i |-> 0]

RECURSIVE ParseValue(_, _)
RECURSIVE ParseElems(_, _, _)
RECURSIVE ParseMembers(_, _, _)

\* after [ or after a , inside an array: a value, then , or ]
ParseElems(t, i, acc) ==
    LET r == ParseValue(t, i) IN
    IF ~r.ok \/ r.i > Len(t) THEN ParseFail
    ELSE IF t[r.i] = RK THEN [ok |-> TRUE, v |-> List(Append(acc, r.v)), i |-> r.i + 1]
    ELSE IF t[r.i] = COMMA THEN ParseElems(t, r.i + 1, Append(acc, r.v))
    ELSE ParseFail

\* after { or after a , inside an object: key : value, then , or }
ParseMembers(t, i, acc) ==
    IF i + 1 > Len(t) \/ t[i].k # "str" \/ t[i + 1] # COLON THEN ParseFail
    ELSE LET r == ParseValue(t, i + 2) IN
         IF ~r.ok \/ r.i > Len(t) THEN ParseFail
         ELSE IF t[r.i] = RB
              THEN [ok |-> TRUE, v |-> Obj(Put(acc, t[i].s, r.v)), i |-> r.i + 1]
         ELSE IF t[r.i] = COMMA THEN ParseMembers(t, r.i + 1, Put(acc, t[i].s, r.v))
         ELSE ParseFail

ParseValue(t, i) ==
    IF i > Len(t) THEN ParseFail
    ELSE CASE t[i].k = "num"  -> [ok |-> TRUE, v |-> Num(t[i].n), i |-> i + 1]
           [] t[i].k = "str"  -> [ok |-> TRUE, v |-> Str(t[i].s), i |-> i + 1]
           [] t[i].k = "null" -> [ok |-> TRUE, v |-> Null, i |-> i + 1]
           [] t[i].k = "["    ->
                IF i + 1 <= Len(t) /\ t[i + 1] = RK
                THEN [ok |-> TRUE, v |-> List(<<>>), i |-> i + 2]
                ELSE ParseElems(t, i + 1, <<>>)
           [] t[i].k = "{"    ->
                IF i + 1 <= Len(t) /\ t[i + 1] = RB
                THEN [ok |-> TRUE, v |-> Obj(EmptyMap), i |-> i + 2]
                ELSE ParseMembers(t, i + 1, EmptyMap)
           [] OTHER -> ParseFail

\* json.loads(text): [ok |-> FALSE] stands for JSONDecodeError
JsonLoads(t) ==
    LET r == ParseValue(t, 1) IN
    IF r.ok /\ r.i = Len(t) + 1 THEN [ok |-> TRUE, v |-> r.v] ELSE [ok |-> FALSE, v |-> Null]

\* an extractor's result: Python's None is Null, as json.loads of the text null gives it too
NotFound == Null

Positions(t, tok) == {i \in 1..Len(t) : t[i] = tok}
Min(S) == CHOOSE x \in S : \A y \in S : x <= y
Max(S) == CHOOSE x \in S : \A y \in S : x >= y

\* re.search(r'\{.*\}', text, re.DOTALL): the first { to the last } after it
BraceMatch(t) ==
    LET ls == Positions(t, LB) IN
    IF ls = {} THEN [found |-> FALSE, s |-> <<>>]
    ELSE LET a == Min(ls)
             rs == {i \in Positions(t, RB) : i > a} IN
         IF rs = {} THEN [found |-> FALSE, s |-> <<>>]
         ELSE [found |-> TRUE, s |-> SubSeq(t, a, Max(rs))]

\* LLMEvaluator.extract_json_from_text
LLMExtractJson(t) ==
    LET m == BraceMatch(t)
        whole == JsonLoads(t) IN
    IF m.found /\ JsonLoads(m.s).ok THEN JsonLoads(m.s).v
    ELSE IF whole.ok THEN whole.v
    ELSE NotFound

\* text.split(sep)[1].split(fence)[0]: what follows the first sep, up to the
\* next run of three backticks (which a json fence marker starts with as well)
FenceInterior(t, sep) ==
    LET a == Min(Positions(t, sep))
        ends == {i \in Positions(t, FENCE) \cup Positions(t, FENCEJSON) : i > a}
        b == IF ends = {} THEN Len(t) + 1 ELSE Min(ends) IN
    SubSeq(t, a + 1, b - 1)

\* GeminiEvaluator.extract_json_from_text
GeminiExtractJson(t) ==
    LET m == BraceMatch(t)
        inner == IF Positions(t, FENCEJSON) # {} THEN FenceInterior(t, FENCEJSON)
                 ELSE IF Positions(t, FENCE) # {} THEN FenceInterior(t, FENCE)
                 ELSE t
        r == JsonLoads(inner) IN
    IF m.found /\ JsonLoads(m.s).ok THEN JsonLoads(m.s).v
    ELSE IF r.ok THEN r.v
    ELSE NotFound

(***************************************************************************)
(* Config (config.py).  Every JSON number n stands for n/10, so the score  *)
(* 7.5 is Num(75) and the bounds of a score are Tenths(MIN_SCORE) and      *)
(* Tenths(MAX_SCORE).                                                      *)
(***************************************************************************)
MIN_SCORE == 0
MAX_SCORE == 10
SCORE_CATEGORIES == <<"relevance", "clarity", "technical_accuracy", "structure", "completeness">>

Tenths(n) == n * 10

\* the outcome of a call: it returns a value, or raises and leaves its argument as v
Ret(v) == [kind |-> "return", v |-> v]
Raise(e, v) == [kind |-> "raise", exc |-> e, v |-> v]
NoCall == [kind |-> "none"]

(***************************************************************************)
(* LLMEvaluator.validate_and_fix_response                                  *)
(***************************************************************************)
\* the neutral score given to an absent category
DefaultScore == 5

\* a slip that clamps to whole scores, as int() of the clamped value would
ClampTruncating(n) ==
    LET lo == Tenths(MIN_SCORE)
        hi == Tenths(MAX_SCORE)
        m == IF n < hi THEN n ELSE hi
        c == IF m > lo THEN m ELSE lo IN
    Tenths(c \div 10)

\* max(MIN_SCORE, min(MAX_SCORE, v))
Clamp(n) ==
    LET lo == Tenths(MIN_SCORE)
        hi == Tenths(MAX_SCORE)
        m == IF n < hi THEN n ELSE hi IN
    IF m > lo THEN m ELSE lo

\* the loop over Config.SCORE_CATEGORIES, from category i on; ok is FALSE when
\* min() meets a value that is no number (TypeError), m is the mapping so far
RECURSIVE FixScores(_, _)
FixScores(m, i) ==
    IF i > Len(SCORE_CATEGORIES) THEN [ok |-> TRUE, m |-> m]
    ELSE LET c == SCORE_CATEGORIES[i] IN
         IF c \notin DOMAIN m THEN FixScores(Put(m, c, Num(Tenths(DefaultScore))), i + 1)
         ELSE IF m[c].t # "num" THEN [ok |-> FALSE, m |-> m]
         ELSE FixScores(Put(m, c, Num(Clamp(m[c].n))), i + 1)

\* sum(scores.values()) over a mapping whose values are all numbers
RECURSIVE SumValues(_)
SumValues(m) ==
    IF DOMAIN m = {} THEN 0
    ELSE LET k == CHOOSE x \in DOMAIN m : TRUE IN
         m[k].n + SumValues([x \in (DOMAIN m) \ {k} |-> m[x]])

\* " ".join(l) for a list of strings
RECURSIVE JoinWith(_, _)
JoinWith(l, sep) ==
    IF l = <<>> THEN ""
    ELSE IF Len(l) = 1 THEN l[1].s
    ELSE l[1].s \o sep \o JoinWith(Tail(l), sep)

\* str(v) for the values a suggestions entry is given here
PyStr(v) ==
    CASE v.t = "str"  -> v.s
      [] v.t = "null" -> "None"

SynthesizedAnalysis(combined) ==
    Obj([k \in {"technical_depth", "business_viability", "presentation_flow"} |->
          CASE k = "technical_depth"    -> Str("Technical review pending. " \o combined)
            [] k = "business_viability" -> Str("Market impact analysis required.")
            [] k = "presentation_flow"  -> Str("Structure needs further evaluation.")])

\* lines 136-152: detailed_analysis and summary_evaluation, on a dict r whose
\* scores and overall_score are set
FixNarrative(r) ==
    LET needDA == "detailed_analysis" \notin DOMAIN r \/ r["detailed_analysis"].t # "obj"
        sugg == IF "improvement_suggestions" \in DOMAIN r THEN r["improvement_suggestions"]
                ELSE List(<<Str("Analysis is brief.")>>)
        joinable == sugg.t # "list" \/ \A i \in 1..Len(sugg.l) : sugg.l[i].t = "str"
        combined == IF sugg.t = "list" THEN JoinWith(sugg.l, " ") ELSE PyStr(sugg)
        r4 == IF needDA THEN Put(r, "detailed_analysis", SynthesizedAnalysis(combined)) ELSE r
        r5 == IF "summary_evaluation" \notin DOMAIN r4 \/ ~Truthy(r4["summary_evaluation"])
              THEN Put(r4, "summary_evaluation", Str("Evaluation completed."))
              ELSE r4 IN
    IF needDA /\ ~joinable THEN Raise("TypeError", Obj(r)) ELSE Ret(Obj(r5))

\* a slip that adds the new sum to the overall_score already there
StoreOverallAccumulating(r, m) ==
    Put(r, "overall_score",
        Num(SumValues(m) + (IF "overall_score" \in DOMAIN r /\ r["overall_score"].t = "num"
                            THEN r["overall_score"].n ELSE 0)))

\* line 134: overall_score becomes the sum of every value of the scores mapping m
StoreOverall(r, m) == Put(r, "overall_score", Num(SumValues(m)))

ValidateAndFix(response) ==
    IF response.t # "obj" THEN Raise("TypeError", response)
    ELSE LET r0 == response.o
             r1 == IF "scores" \in DOMAIN r0 THEN r0 ELSE Put(r0, "scores", Obj(EmptyMap)) IN
         IF r1["scores"].t # "obj" THEN Raise("TypeError", Obj(r1))
         ELSE LET f == FixScores(r1["scores"].o, 1)
                  r2 == Put(r1, "scores", Obj(f.m)) IN
              IF ~f.ok \/ \E k \in DOMAIN f.m : f.m[k].t # "num"
              THEN Raise("TypeError", Obj(r2))
              ELSE FixNarrative(StoreOverall(r2, f.m))

(***************************************************************************)
(* State.                                                                  *)
(*   vIn, vObj, vOut   a dict handed to validate_and_fix_response: as it   *)
(*                     was given, as the calls so far left it (the method  *)
(*                     patches its argument in place), and the outcome of  *)
(*                     each call                                           *)
(***************************************************************************)
VARIABLES vIn, vObj, vOut

(***************************************************************************)
(*   hPs, hSummary     the arguments of a call of the heuristic scorer     *)
(*   hCall, hOut       the method called (none yet, generate_heuristic_    *)
(*                     evaluation or get_default_evaluation), its outcome  *)
(***************************************************************************)
VARIABLES hPs, hSummary, hCall, hOut

(***************************************************************************)
(*   model, tokenizer  LLMEvaluator.model / .tokenizer: loaded or not      *)
(*   ePc               where a call of LLMEvaluator.evaluate stands        *)
(*   ePs, eSummary, eMaxRetries   its arguments                            *)
(*   eLog              what each generation attempt so far came to         *)
(*   eOut              the outcome of the call                             *)
(***************************************************************************)
VARIABLES model, tokenizer, ePc, ePs, eSummary, eMaxRetries, eLog, eOut

(***************************************************************************)
(*   apiKey            whether GEMINI_API_KEY is set in the environment    *)
(*   files             the files of the generated_ppts directory           *)
(*   rPc               where a /reconstruct/chat request stands            *)
(*   rGiven, rCurrent  request.current_structure as the client sent it,    *)
(*                     and the dict object refine_structure is handed      *)
(*   rInstruction      request.user_message                                *)
(*   rText             the text generate_response returned                 *)
(*   rBranch           the branch refine_structure took: rejected (lines   *)
(*                     258-264), applied (lines 266-273) or raised         *)
(*   rWritten          the files the call of refine_structure wrote        *)
(*   rResult           the outcome of refine_structure                     *)
(*   rResponse         the HTTP response of the endpoint                   *)
(***************************************************************************)
VARIABLES apiKey, files, rPc, rGiven, rCurrent, rInstruction, rText
VARIABLES rBranch, rWritten, rResult, rResponse

(***************************************************************************)
(*   cPc               where a call of reconstruct_presentation stands     *)
(*   cSummary          its argument summary                                *)
(*   cText             the text the primary source (Gemini) answered with  *)
(*   cAltRequests      how many generations the call requested from the    *)
(*                     alternate source (the local LLMEvaluator)           *)
(*   cStructure        what generate_structure returned                    *)
(*   cResult           the outcome of reconstruct_presentation             *)
(***************************************************************************)
VARIABLES cPc, cSummary, cText, cAltRequests, cStructure, cResult

(***************************************************************************)
(*   pKind             how a text given to the parsers is built: plain    *)
(*                     (commentary, payload, commentary), fenced (the      *)
(*                     payload between a json fence and a closing fence)   *)
(*                     or sentinel (the error text of generate_response)   *)
(*   pPre, pPayload, pPost   the parts of the text                         *)
(*   pOut              what LLMEvaluator.extract_json_from_text and        *)
(*                     GeminiEvaluator.extract_json_from_text returned     *)
(***************************************************************************)
VARIABLES pKind, pPre, pPayload, pPost, pOut

(***************************************************************************)
(*   kJ, kS            the judgment relevance and the similarity score     *)
(*                     given to the score combination, in tenths           *)
(*   kOut              the adjusted relevance, in tenths                   *)
(*   kPrev             the call before: its arguments and its result       *)
(***************************************************************************)
VARIABLES kJ, kS, kOut, kPrev

(***************************************************************************)
(*   pipeline          the summarisation pipeline of the summariser: None  *)
(*                     until its first successful load                     *)
(*   scorerModel       the embedding model of the similarity scorer: None  *)
(*                     until its first successful load                     *)
(*   oPc               where evaluate_presentation stands                  *)
(*   oPs               the problem statement it was given                  *)
(*   oSlideCount       the slide count the extractor returned              *)
(*   oSummary          the summary the summariser returned                 *)
(*   oSemantic         the outcome of calculate_relevance_score, its value *)
(*                     in hundredths                                       *)
(*   oJudgment         the outcome of llm_evaluator.evaluate, as returned  *)
(*   oLog              the stages entered so far, in order                 *)
(*   oResult           the outcome of evaluate_presentation                *)
(***************************************************************************)
VARIABLES pipeline, scorerModel, oPc, oPs, oSlideCount, oSummary, oSemantic, oJudgment, oLog, oResult

(***************************************************************************)
(*   aPc               where the /evaluate handler stands                  *)
(*   aFileName, aSize  the name and the length of the uploaded file        *)
(*   aPs               the problem statement of the form                   *)
(*   aTemp             the temporary files that exist                      *)
(*   aCreated          how many temporary files the request created        *)
(*   aInvocations      how many times the request called the orchestrator  *)
(*   aOutcome          the outcome of orch.evaluate_presentation           *)
(*   aResponse         the response of the handler                         *)
(***************************************************************************)
VARIABLES aPc, aFileName, aSize, aPs, aTemp, aCreated, aInvocations, aOutcome, aResponse

(***************************************************************************)
(*   dModel            the model handle of an evaluator whose heuristic    *)
(*                     scorer is called repeatedly                         *)
(*   dPs, dSummary     the arguments whose reports are compared            *)
(*   dCalls            the calls of the scorer so far, each as the pair of *)
(*                     its arguments                                       *)
(*   dFirst, dOut      the outcome of the first call with dPs and dSummary *)
(*                     and of the latest later call with them              *)
(***************************************************************************)
VARIABLES dModel, dPs, dSummary, dCalls, dFirst, dOut

(***************************************************************************)
(*   mData             the report an EvaluationResponse is constructed     *)
(*                     from                                                *)
(*   mOut              the outcome of the construction                     *)
(***************************************************************************)
VARIABLES mData, mOut

(***************************************************************************)
(*   fPs, fSummary     the arguments of a heuristic scoring whose report   *)
(*                     is then handed to validate_and_fix_response         *)
(*   fReport, fFixed   the outcome of the scoring, of the validation       *)
(***************************************************************************)
VARIABLES fPs, fSummary, fReport, fFixed

(***************************************************************************)
(*   sLoop             the request whose handler holds the event loop of   *)
(*                     the server, 0 when the loop is free                 *)
(*   orchestrator, reconstructor                                           *)
(*                     the globals of main.py: 0 for None, else the        *)
(*                     number of the object constructed                    *)
(*   sModels           for each orchestrator constructed, the model        *)
(*                     handle of each of its components (0 for None)       *)
(*   sInits            how many times each handle was initialised          *)
(*   sReq              the requests: kind, text, position in the handler,  *)
(*                     the handles it was given, the file it generated,    *)
(*                     the requests in flight together with it, its status *)
(*   sGenerated        the files of generated_ppts: the request that wrote *)
(*                     each last, 0 when absent                            *)
(***************************************************************************)
VARIABLES sLoop, orchestrator, reconstructor, sModels, sInits, sReq, sGenerated

(***************************************************************************)
(*   tEntry, tPc       a call that stores an upload in a temporary file:   *)
(*                     the /evaluate handler or evaluate_from_bytes, and   *)
(*                     its position                                        *)
(*   tName, tPs        the path of its temporary file, its problem         *)
(*                     statement                                           *)
(*   tDisk, tOut       the files on disk, the outcome of the call          *)
(***************************************************************************)
VARIABLES tEntry, tPc, tName, tPs, tDisk, tOut

valVars == <<vIn, vObj, vOut>>
heurVars == <<hPs, hSummary, hCall, hOut>>
evalVars == <<model, tokenizer, ePc, ePs, eSummary, eMaxRetries, eLog, eOut>>
refVars == <<apiKey, files, rPc, rGiven, rCurrent, rInstruction, rText, rBranch,
            rWritten, rResult, rResponse>>
refCallVars == <<rPc, rGiven, rCurrent, rInstruction, rText, rBranch, rWritten,
                rResult, rResponse>>
recVars == <<cPc, cSummary, cText, cAltRequests, cStructure, cResult>>
parseVars == <<pKind, pPre, pPayload, pPost, pOut>>
combVars == <<kJ, kS, kOut, kPrev>>
orchVars == <<pipeline, scorerModel, oPc, oPs, oSlideCount, oSummary, oSemantic, oJudgment, oLog, oResult>>
apiVars == <<aPc, aFileName, aSize, aPs, aTemp, aCreated, aInvocations, aOutcome, aResponse>>
detVars == <<dModel, dPs, dSummary, dCalls, dFirst, dOut>>
respVars == <<mData, mOut>>
fixVars == <<fPs, fSummary, fReport, fFixed>>
srvVars == <<sLoop, orchestrator, reconstructor, sModels, sInits, sReq, sGenerated>>
tmpVars == <<tEntry, tPc, tName, tPs, tDisk, tOut>>
laterVars == <<recVars, parseVars, combVars, orchVars, apiVars, detVars, respVars, fixVars, srvVars, tmpVars>>
vars == <<valVars, heurVars, evalVars, refVars, laterVars>>

ValIdle == vIn = Null /\ vObj = Null /\ vOut = <<>>
HeurIdle == hPs = "" /\ hSummary = "" /\ hCall = "none" /\ hOut = NoCall
EvalIdle ==
    /\ model = "None" /\ tokenizer = "None"
    /\ ePc = "idle" /\ ePs = "" /\ eSummary = "" /\ eMaxRetries = 0
    /\ eLog = <<>> /\ eOut = NoCall
RefIdle ==
    /\ apiKey = FALSE /\ files = {}
    /\ rPc = "idle" /\ rGiven = Null /\ rCurrent = Null /\ rInstruction = ""
    /\ rText = <<>> /\ rBranch = "none" /\ rWritten = {}
    /\ rResult = NoCall /\ rResponse = NoCall
RecIdle ==
    /\ cPc = "idle" /\ cSummary = "" /\ cText = <<>> /\ cAltRequests = 0
    /\ cStructure = Null /\ cResult = NoCall
ParseIdle ==
    /\ pKind = "plain" /\ pPre = <<>> /\ pPayload = <<>> /\ pPost = <<>> /\ pOut = NoCall
CombIdle ==
    /\ kJ = 0 /\ kS = 0 /\ kOut = NoCall /\ kPrev = NoCall
OrchIdle ==
    /\ pipeline = "None" /\ scorerModel = "None" /\ oPc = "idle" /\ oPs = "" /\ oSlideCount = 0
    /\ oSummary = "" /\ oSemantic = NoCall /\ oJudgment = NoCall
    /\ oLog = <<>> /\ oResult = NoCall
ApiIdle ==
    /\ aPc = "idle" /\ aFileName = "" /\ aSize = 0 /\ aPs = "" /\ aTemp = {}
    /\ aCreated = 0 /\ aInvocations = 0 /\ aOutcome = NoCall /\ aResponse = NoCall
DetIdle ==
    /\ dModel = "None" /\ dPs = "" /\ dSummary = "" /\ dCalls = <<>>
    /\ dFirst = NoCall /\ dOut = NoCall
RespIdle ==
    /\ mData = Null /\ mOut = NoCall
FixIdle ==
    /\ fPs = "" /\ fSummary = "" /\ fReport = NoCall /\ fFixed = NoCall
SrvIdle ==
    /\ sLoop = 0 /\ orchestrator = 0 /\ reconstructor = 0 /\ sModels = <<>>
    /\ sInits = <<>> /\ sReq = <<>> /\ sGenerated = <<>>
TmpIdle ==
    /\ tEntry = "" /\ tPc = "idle" /\ tName = "" /\ tPs = "" /\ tDisk = {} /\ tOut = NoCall
\* the components declared after the refinement are idle, but for the one named
LaterIdleExcept(x) ==
    /\ IF x = "rec" THEN TRUE ELSE RecIdle
    /\ IF x = "parse" THEN TRUE ELSE ParseIdle
    /\ IF x = "comb" THEN TRUE ELSE CombIdle
    /\ IF x = "orch" THEN TRUE ELSE OrchIdle
    /\ IF x = "api" THEN TRUE ELSE ApiIdle
    /\ IF x = "det" THEN TRUE ELSE DetIdle
    /\ IF x = "resp" THEN TRUE ELSE RespIdle
    /\ IF x = "fix" THEN TRUE ELSE FixIdle
    /\ IF x = "srv" THEN TRUE ELSE SrvIdle
    /\ IF x = "tmp" THEN TRUE ELSE TmpIdle
LaterIdle == LaterIdleExcept("none")

(***************************************************************************)
(* The responses handed to the validator.                                  *)
(***************************************************************************)
\* how far outside [MIN_SCORE, MAX_SCORE] a given score lies at most
ScoreSpan == 2
\* how many times in a row the validator is applied to one dict
MaxCalls == 2

\* the key k absent, or present with a value of S
Opt(k, S) == {EmptyMap} \cup {k :> v : v \in S}

RelevanceInputs ==
    {Num(Tenths(n)) : n \in (MIN_SCORE - ScoreSpan)..(MAX_SCORE + ScoreSpan)}
        \cup {Str("8"), Null, List(<<>>)}

OtherCategoryInputs ==
    {EmptyMap,
     ("technical_accuracy" :> Num(Tenths(MIN_SCORE - ScoreSpan)))
        @@ ("structure" :> Num(Tenths(MAX_SCORE))) @@ ("completeness" :> Num(0))}

ScoreMaps ==
    {a @@ b @@ c @@ d :
        a \in Opt("relevance", RelevanceInputs),
        b \in Opt("clarity", {Num(75), Num(Tenths(MAX_SCORE + ScoreSpan))}),
        c \in OtherCategoryInputs,
        d \in Opt("innovation", {Num(70), Str("high")})}

ScoresInputs == {Obj(m) : m \in ScoreMaps} \cup {Null, Str("high"), List(<<>>), Num(70)}

GivenAnalysis ==
    Obj([k \in {"technical_depth", "business_viability", "presentation_flow"} |-> Str("Sound.")])

NarrativeInputs ==
    {EmptyMap,
     ("strengths" :> List(<<Str("Good technical depth")>>))
        @@ ("weaknesses" :> List(<<Str("Could improve visuals")>>))
        @@ ("missing_elements" :> List(<<>>))}

Responses ==
    {Obj(a @@ b @@ c @@ d @@ e @@ f) :
        a \in Opt("scores", ScoresInputs),
        b \in Opt("overall_score", {Num(350)}),
        c \in Opt("detailed_analysis", {GivenAnalysis, Str("n/a")}),
        d \in Opt("improvement_suggestions",
                  {List(<<Str("Add more diagrams"), Str("Include code examples")>>),
                   Str("Improve"), List(<<Num(10)>>)}),
        e \in Opt("summary_evaluation",
                  {Str(""), Str("ok"), Str("Strong presentation with good technical content.")}),
        f \in NarrativeInputs}

(***************************************************************************)
(* The validator applied to a response, and applied again to what it left. *)
(***************************************************************************)
ValInit ==
    /\ vIn \in Responses /\ vObj = vIn /\ vOut = <<>>
    /\ HeurIdle /\ EvalIdle /\ RefIdle /\ LaterIdle

ValidateCall ==
    /\ Len(vOut) < MaxCalls
    /\ LET r == ValidateAndFix(vObj) IN
         /\ vObj' = r.v
         /\ vOut' = Append(vOut, r)
    /\ UNCHANGED <<vIn, heurVars, evalVars, refVars, laterVars>>

SpecValidate == ValInit /\ [][ValidateCall]_vars

(***************************************************************************)
(* Claims about the validator (SpecValidate).                              *)
(***************************************************************************)
ScoresOf(v) == v.o["scores"].o

InRange(x) == x.t = "num" /\ Tenths(MIN_SCORE) <= x.n /\ x.n <= Tenths(MAX_SCORE)

RECURSIVE SumOfCategories(_, _)
SumOfCategories(m, i) ==
    IF i > Len(SCORE_CATEGORIES) THEN 0
    ELSE m[SCORE_CATEGORIES[i]].n + SumOfCategories(m, i + 1)

HasFiveInRange(v) ==
    \A i \in 1..Len(SCORE_CATEGORIES) :
        SCORE_CATEGORIES[i] \in DOMAIN ScoresOf(v) /\ InRange(ScoresOf(v)[SCORE_CATEGORIES[i]])

\* C5: whatever object the validator is given, its result has the five
\* categories present with values in [0,10] and an overall_score equal to the
\* sum of those five values.
C5_FiveCategoriesAndTheirSum ==
    \A i \in 1..Len(vOut) :
        vOut[i].kind = "return" =>
            /\ HasFiveInRange(vOut[i].v)
            /\ vOut[i].v.o["overall_score"] = Num(SumOfCategories(ScoresOf(vOut[i].v), 1))

\* C6: the validator never fails: every call on a parsed JSON object returns
\* a report, none raises.
C6_ValidatorNeverRaises ==
    \A i \in 1..Len(vOut) : vOut[i].kind = "return"

NonEmptyStringList(x) ==
    x.t = "list" /\ Len(x.l) >= 1 /\ \A i \in 1..Len(x.l) : x.l[i].t = "str"

WellFormedReport(v) ==
    LET r == v.o IN
    /\ "strengths" \in DOMAIN r /\ NonEmptyStringList(r["strengths"])
    /\ "weaknesses" \in DOMAIN r /\ NonEmptyStringList(r["weaknesses"])
    /\ "missing_elements" \in DOMAIN r /\ r["missing_elements"].t = "list"
    /\ "detailed_analysis" \in DOMAIN r /\ r["detailed_analysis"].t = "obj"
    /\ {"technical_depth", "business_viability", "presentation_flow"}
           \subseteq DOMAIN r["detailed_analysis"].o
    /\ "summary_evaluation" \in DOMAIN r /\ r["summary_evaluation"].t = "str"
    /\ Len(r["summary_evaluation"].s) >= 10

\* C7: the report the validator returns is always well formed: strengths and
\* weaknesses with at least one string, a missing_elements list, a
\* detailed_analysis with its three fields, a summary_evaluation of at least
\* 10 characters.
C7_ResultIsWellFormedReport ==
    \A i \in 1..Len(vOut) : vOut[i].kind = "return" => WellFormedReport(vOut[i].v)

\* C8: the validator is idempotent: when a call returns, a further call on
\* its result returns the same report, equal in every field.
C8_ValidatorIdempotent ==
    \A i \in 1..(Len(vOut) - 1) : vOut[i].kind = "return" => vOut[i + 1] = vOut[i]

\* C8 witness: the validator was applied twice to a response it had to repair
\* (a category out of range, the analysis and the summary synthesized).
C8_Witness ==
    /\ Len(vOut) >= 2
    /\ vOut[1].kind = "return"
    /\ "scores" \in DOMAIN vIn.o /\ vIn.o["scores"].t = "obj"
    /\ "relevance" \in DOMAIN vIn.o["scores"].o
    /\ vIn.o["scores"].o["relevance"] = Num(Tenths(MAX_SCORE + ScoreSpan))
    /\ "innovation" \in DOMAIN vIn.o["scores"].o
    /\ "detailed_analysis" \notin DOMAIN vIn.o
    /\ "summary_evaluation" \notin DOMAIN vIn.o
    /\ vOut[1].v # vIn
    /\ vOut[2].kind = "return"

(***************************************************************************)
(* Text helpers: Python str operations on TLA+ strings.                    *)
(***************************************************************************)
\* k in s
Contains(s, k) ==
    \E i \in 1..(Len(s) - Len(k) + 1) : SubSeq(s, i, i + Len(k) - 1) = k

UPPER == "ABCDEFGHIJKLMNOPQRSTUVWXYZ"
LOWER == "abcdefghijklmnopqrstuvwxyz"
DIGITS == "0123456789"

CharsOf(s) == {SubSeq(s, i, i) : i \in 1..Len(s)}

\* c.lower() for the upper-case letters
LowerOf == [c \in CharsOf(UPPER) |->
               LET i == CHOOSE j \in 1..Len(UPPER) : SubSeq(UPPER, j, j) = c IN
               SubSeq(LOWER, i, i)]

LowerChar(c) == IF c \in DOMAIN LowerOf THEN LowerOf[c] ELSE c

\* s.lower()
RECURSIVE LowerFrom(_, _)
LowerFrom(s, i) ==
    IF i > Len(s) THEN "" ELSE LowerChar(SubSeq(s, i, i)) \o LowerFrom(s, i + 1)

Lower(s) == LowerFrom(s, 1)

\* the characters the regular expression \w matches
WordChars == CharsOf(LOWER) \cup CharsOf(UPPER) \cup CharsOf(DIGITS) \cup {"_"}

IsWordChar(c) == c \in WordChars

\* re.findall(r'\w+', s) from position i on: start is where the run of word
\* characters that reaches i began (0 when there is none), acc the runs found
RECURSIVE WordScan(_, _, _, _)
WordScan(s, i, start, acc) ==
    IF i > Len(s)
    THEN IF start > 0 THEN acc \cup {SubSeq(s, start, Len(s))} ELSE acc
    ELSE IF IsWordChar(SubSeq(s, i, i))
         THEN WordScan(s, i + 1, IF start = 0 THEN i ELSE start, acc)
         ELSE WordScan(s, i + 1, 0,
                       IF start > 0 THEN acc \cup {SubSeq(s, start, i - 1)} ELSE acc)

\* set(re.findall(r'\w+', s)): the maximal runs of word characters
Words(s) == WordScan(s, 1, 0, {})

\* ", ".join(l) for a sequence of TLA+ strings
RECURSIVE JoinStrings(_, _)
JoinStrings(l, sep) ==
    IF l = <<>> THEN ""
    ELSE IF Len(l) = 1 THEN l[1]
    ELSE l[1] \o sep \o JoinStrings(Tail(l), sep)

\* str(n) for a natural number n
RECURSIVE IntStr(_)
IntStr(n) ==
    IF n < 10 THEN SubSeq(DIGITS, n + 1, n + 1)
    ELSE IntStr(n \div 10) \o SubSeq(DIGITS, (n % 10) + 1, (n % 10) + 1)

\* how an f-string prints the float that is n tenths: 75 gives 7.5
FloatStr(n) == IntStr(n \div 10) \o "." \o IntStr(n % 10)

\* the first n elements of l: l[:n]
Take(l, n) == SubSeq(l, 1, IF Len(l) < n THEN Len(l) ELSE n)

\* the number of elements of l that s contains
CountIn(l, s) == Cardinality({i \in 1..Len(l) : Contains(s, l[i])})

\* round(num/den, 1) read in tenths: the nearest integer to num/den, ties to even
RoundRatio(num, den) ==
    LET q == num \div den
        r == num % den IN
    IF 2 * r < den THEN q
    ELSE IF 2 * r > den THEN q + 1
    ELSE IF q % 2 = 0 THEN q ELSE q + 1

(***************************************************************************)
(* LLMEvaluator.generate_heuristic_evaluation                              *)
(***************************************************************************)
TECH_KEYWORDS ==
    <<"python", "javascript", "react", "node", "aws", "firebase", "docker", "kubernetes",
      "api", "database", "sql", "nosql", "mongodb", "ai", "ml", "llm", "blockchain",
      "smart contract", "flutter", "swift", "tensorflow", "pytorch", "backend", "frontend">>

BIZ_KEYWORDS ==
    <<"market", "revenue", "business model", "subscription", "b2b", "b2c", "saas",
      "competitor", "user acquisition", "growth", "scale", "monetization", "cost">>

MVP_KEYWORDS ==
    <<"demo", "prototype", "mvp", "live", "screenshot", "walkthrough", "architecture",
      "flowchart", "github", "repo", "implementation">>

STRUCTURAL_MARKERS == <<"problem", "solution", "tech", "demo", "business", "team", "ask">>

STOP_WORDS == {"the", "a", "an", "to", "of"}

\* [t for t in tech_keywords if t in summary_lower]
DetectedTech(summary_lower) ==
    SelectSeq(TECH_KEYWORDS, LAMBDA t : Contains(summary_lower, t))

HasTechDepth(summary_lower) == Len(DetectedTech(summary_lower)) >= 3
HasBizPlan(summary_lower) == CountIn(BIZ_KEYWORDS, summary_lower) > 0
HasMvp(summary_lower) == CountIn(MVP_KEYWORDS, summary_lower) > 0

ProblemWords(problem_statement) == Words(Lower(problem_statement)) \ STOP_WORDS

Overlap(problem_statement, summary_lower) ==
    Cardinality(ProblemWords(problem_statement) \cap Words(summary_lower))

\* relevance_score = min(9.5, max(4.0, overlap / len(problem_words) * 10 * 1.5)),
\* in tenths and as a ratio num/den, for a non-empty set of problem words
RelevanceRatio(overlap, nwords) ==
    LET num == overlap * 10 * 15 IN
    IF num < 40 * nwords THEN [num |-> 40, den |-> 1]
    ELSE IF num > 95 * nwords THEN [num |-> 95, den |-> 1]
    ELSE [num |-> num, den |-> nwords]

\* a slip that drops the penalty of lines 277-278
TechScoreWithoutPenalty(summary_lower) ==
    IF HasTechDepth(summary_lower) THEN 85 ELSE 50
\* lines 276-278
TechScore(summary_lower) ==
    (IF HasTechDepth(summary_lower) THEN 85 ELSE 50)
        - (IF Contains(summary_lower, "wrapper") \/ Contains(summary_lower, "simple")
           THEN 10 ELSE 0)

CompletenessScore(has_mvp) == IF has_mvp THEN 80 ELSE 40

StructureScore(summary_lower) ==
    LET n == 40 + 10 * CountIn(STRUCTURAL_MARKERS, summary_lower) IN
    IF n < 90 THEN n ELSE 90

ClarityScore == 75

\* the locals of the method that the scores and the feedback are built from
Signals(summary_lower) ==
    [detected_tech   |-> DetectedTech(summary_lower),
     has_tech_depth  |-> HasTechDepth(summary_lower),
     has_biz_plan    |-> HasBizPlan(summary_lower),
     has_mvp         |-> HasMvp(summary_lower),
     tech_score      |-> TechScore(summary_lower),
     structure_score |-> StructureScore(summary_lower)]

HeuristicScores(rel, g) ==
    [k \in {"relevance", "clarity", "technical_accuracy", "structure", "completeness"} |->
        CASE k = "relevance"          -> Num(RoundRatio(rel.num, rel.den))
          [] k = "clarity"            -> Num(ClarityScore)
          [] k = "technical_accuracy" -> Num(g.tech_score)
          [] k = "structure"          -> Num(g.structure_score)
          [] k = "completeness"       -> Num(CompletenessScore(g.has_mvp))]

HeuristicStrengths(rel, g) ==
    <<IF g.has_tech_depth
      THEN Str("Impressive technical depth detected ("
               \o JoinStrings(Take(g.detected_tech, 3), ", ")
               \o "). The engineering effort appears strictly robust and goes beyond a simple UI wrapper.")
      ELSE Str("The project targets a clear problem space, and the initial concept shows potential for a viable hackathon entry if technical details are fleshed out."),
      IF g.has_biz_plan
      THEN Str("Strong business viability signals. You've clearly thought about market fit and monetization, which sets you apart from pure engineering projects.")
      ELSE Str("The narrative follows a logical problem-solution cadence, making the core value proposition easy for judges to understand quickly."),
      IF rel.num > 70 * rel.den
      THEN Str("Direct hit on the problem statement. The solution aligns perfectly with the competition track and addresses a significant pain point.")
      ELSE Str("The slide deck is visually structured to guide the audience, ensuring that the key 'Ask' or conclusion is not lost in the details.")>>

HeuristicWeaknesses(g) ==
    <<IF ~g.has_tech_depth
      THEN Str("CRITICAL: Lack of deep technical details. Judges need to see architecture diagrams, API specs, or code snippets, not just high-level concepts. What is the stack?")
      ELSE Str("The connection between the complex tech stack and the user value proposition could be sharper. Don't just list tools; explain *why* they were chosen."),
      IF ~g.has_mvp
      THEN Str("MAJOR RED FLAG: No clear evidence of a functional MVP or Demo. Hackathons are about *building*, not just pitching ideas. Where is the prototype?")
      ELSE Str("The current MVP feature set seems ambitious. Ensure you can actually demo the core 'Happy Path' live without smoking mirrors."),
      IF ~g.has_biz_plan
      THEN Str("Missing commercial viability. Even for non-profits, you need a sustainability model. Who pays? How do you scale? The 'Business' slide seems missing.")
      ELSE Str("The competitive analysis feels light. You need to explicitly state why you are 10x better than existing solution X or Y.")>>

HeuristicAnalysis(g) ==
    Obj([k \in {"technical_depth", "business_viability", "presentation_flow"} |->
        CASE k = "technical_depth" ->
               Str("The proposed solution "
                   \o (IF g.has_tech_depth THEN "demonstrates a strong engineering foundation"
                       ELSE "lacks sufficient technical specificity")
                   \o ". "
                   \o (IF g.detected_tech # <<>>
                       THEN "The stack includes " \o JoinStrings(g.detected_tech, ", ") \o "."
                       ELSE "No clear tech stack was identified.")
                   \o " Architecture validation required.")
          [] k = "business_viability" ->
               Str((IF g.has_biz_plan THEN "A clear business model was detected"
                    ELSE "Commercial viability is unclear")
                   \o ". The presentation "
                   \o (IF g.has_biz_plan THEN "addresses" ELSE "fails to address")
                   \o " market fit and revenue streams adequately for a venture-backed track.")
          [] k = "presentation_flow" ->
               Str("The narrative structure scores " \o FloatStr(g.structure_score)
                   \o "/10. It "
                   \o (IF g.structure_score > 70 THEN "successfully" ELSE "partially")
                   \o " follows standard pitch deck conventions (Problem->Solution->Tech->Biz). Visual clarity baseline estimated at "
                   \o FloatStr(ClarityScore) \o "/10.")])

HeuristicSummary(overall, g) ==
    Str("JUDGE'S VERDICT: "
        \o (IF overall > 400 THEN "FUNDABLE" ELSE IF overall > 300 THEN "PROMISING" ELSE "NEEDS WORK")
        \o " (Score: " \o FloatStr(overall) \o "/50). "
        \o "This entry "
        \o (IF g.has_tech_depth /\ g.has_mvp THEN "has strong winning potential"
            ELSE "has a good concept but lacks execution proof")
        \o ". "
        \o (IF g.has_tech_depth THEN "The technical implementation is the standout feature."
            ELSE "You need to prove this is more than just a slide deck.")
        \o " "
        \o "Focus entirely on polishing the "
        \o (IF ~g.has_mvp THEN "Demo" ELSE "Business Case")
        \o " for the final pitch.")

HeuristicReport(rel, g) ==
    LET scores == HeuristicScores(rel, g)
        overall == SumValues(scores) IN
    Obj([k \in {"scores", "overall_score", "strengths", "weaknesses", "detailed_analysis",
                "missing_elements", "summary_evaluation"} |->
        CASE k = "scores"             -> Obj(scores)
          [] k = "overall_score"      -> Num(overall)
          [] k = "strengths"          -> List(HeuristicStrengths(rel, g))
          [] k = "weaknesses"         -> List(HeuristicWeaknesses(g))
          [] k = "detailed_analysis"  -> HeuristicAnalysis(g)
          [] k = "missing_elements"   ->
               List(<<Str("Live Demo Link"), Str("System Architecture Diagram"),
                      Str("Go-to-Market Strategy")>>)
          [] k = "summary_evaluation" -> HeuristicSummary(overall, g)])

\* the whole method: line 272 divides by len(problem_words)
GenerateHeuristicEvaluation(problem_statement, presentation_summary) ==
    LET sl == Lower(presentation_summary)
        nwords == Cardinality(ProblemWords(problem_statement)) IN
    IF nwords = 0 THEN Raise("ZeroDivisionError", Null)
    ELSE Ret(HeuristicReport(RelevanceRatio(Overlap(problem_statement, sl), nwords), Signals(sl)))

\* LLMEvaluator.get_default_evaluation
GetDefaultEvaluation(problem_statement, presentation_summary) ==
    GenerateHeuristicEvaluation(problem_statement, presentation_summary)

(***************************************************************************)
(* The problem statements and summaries the scorer is given: up to         *)
(* MaxPsParts (MaxSummaryParts) phrases, joined by single spaces.          *)
(***************************************************************************)
MaxPsParts == 2
MaxSummaryParts == 2

PsParts == {"of the", "Build a", "web scraper", "e-commerce!"}

SummaryParts ==
    {"Python API, Docker backend", "Live demo of the scraper", "a simple wrapper",
     "Problem, solution, market"}

\* the texts made of at most n phrases of parts
Texts(parts, n) ==
    {JoinStrings(q, " ") : q \in UNION {[1..k -> parts] : k \in 0..n}}

ProblemStatements == Texts(PsParts, MaxPsParts)
Summaries == Texts(SummaryParts, MaxSummaryParts)

(***************************************************************************)
(* The heuristic scorer applied to a problem statement and a summary.      *)
(* get_default_evaluation is called as test_evaluation.py calls it, with   *)
(* its default arguments, or with arguments as evaluate calls it.          *)
(***************************************************************************)
\* the scenario of a scraper pitch: its problem statement and a summary made
\* of three tool names and two evidence words, none a business keyword
ScenarioProblem == "Build a web scraper for e-commerce sites"
ScenarioSummary == "python requests beautifulsoup demo architecture"

HeurInit ==
    /\ \/ hPs \in ProblemStatements /\ hSummary \in Summaries
       \/ hPs = ScenarioProblem /\ hSummary = ScenarioSummary
    /\ hCall = "none" /\ hOut = NoCall
    /\ ValIdle /\ EvalIdle /\ RefIdle /\ LaterIdle

CallHeuristic ==
    /\ hCall = "none"
    /\ hCall' = "generate_heuristic_evaluation"
    /\ hOut' = GenerateHeuristicEvaluation(hPs, hSummary)
    /\ UNCHANGED <<hPs, hSummary, valVars, evalVars, refVars, laterVars>>

CallGetDefault ==
    /\ hCall = "none"
    /\ hCall' = "get_default_evaluation"
    /\ hOut' = GetDefaultEvaluation(hPs, hSummary)
    /\ UNCHANGED <<hPs, hSummary, valVars, evalVars, refVars, laterVars>>

HeurNext == CallHeuristic \/ CallGetDefault

SpecHeuristic == HeurInit /\ [][HeurNext]_vars

\* C3: generate_heuristic_evaluation returns a report, without raising, for
\* every problem statement and summary, also when the problem statement has
\* no word token outside the stop words.
C3_HeuristicNeverRaises ==
    hCall = "generate_heuristic_evaluation" => hOut.kind = "return"

\* C4: get_default_evaluation with its default arguments (both empty) returns
\* a report holding scores, strengths and weaknesses whose overall_score is 25.
C4_DefaultEvaluationScores25 ==
    (hCall = "get_default_evaluation" /\ hPs = "" /\ hSummary = "") =>
        /\ hOut.kind = "return"
        /\ {"scores", "strengths", "weaknesses"} \subseteq DOMAIN hOut.v.o
        /\ hOut.v.o["overall_score"] = Num(Tenths(25))

(***************************************************************************)
(* LLMEvaluator.evaluate: load_model, then up to max_retries attempts of   *)
(* generate, parse and validate, then the heuristic fallback.              *)
(***************************************************************************)
\* the largest max_retries a caller passes (the default is 3)
MaxRetries == 3

\* the texts a generation attempt decodes to (response_text of line 203-209)
GenOutputs ==
    {<<>>,
     <<WORD, WORD>>,
     <<TNULL>>,
     <<LB, TSTR("scores"), COLON, LB, TSTR("relevance"), COLON, TNUM(80)>>,
     <<LB, RB>>,
     <<TNUM(70)>>,
     <<LB, TSTR("scores"), COLON, TNULL, RB>>,
     <<WORD, LB, TSTR("scores"), COLON, LB, TSTR("relevance"), COLON, TNUM(80), RB, RB, WORD>>,
     <<LB, TSTR("summary_evaluation"), COLON, TSTR("ok"), RB>>}

EvalProblemStatements == {"", "of the of the", "Build a web scraper"}
EvalSummaries == {"", "Python API, Docker backend Live demo of the scraper"}

\* one pass of the loop body on the decoded text: what the attempt came to, and
\* the report it returns when it returns one
AttemptOn(text) ==
    LET evaluation == LLMExtractJson(text) IN
    IF evaluation = NotFound
    THEN [class |-> "not_found", parsed |-> evaluation, out |-> NoCall]
    ELSE IF ~Truthy(evaluation)
    THEN [class |-> "falsy", parsed |-> evaluation, out |-> NoCall]
    ELSE LET r == ValidateAndFix(evaluation) IN
         IF r.kind = "return" THEN [class |-> "validated", parsed |-> evaluation, out |-> r]
         ELSE [class |-> "validate_raised", parsed |-> evaluation, out |-> NoCall]

EvalInit == EvalIdle /\ ValIdle /\ HeurIdle /\ RefIdle /\ LaterIdle

\* a caller enters evaluate(problem_statement, presentation_summary, max_retries)
EvaluateCall ==
    /\ ePc = "idle"
    /\ \E ps \in EvalProblemStatements, sm \in EvalSummaries, n \in 0..MaxRetries :
         /\ ePs' = ps /\ eSummary' = sm /\ eMaxRetries' = n
    /\ ePc' = "load_model" /\ eLog' = <<>> /\ eOut' = NoCall
    /\ UNCHANGED <<model, tokenizer, valVars, heurVars, refVars, laterVars>>

\* line 171, load_model finds the model there or loads tokenizer and model
LoadModelOk ==
    /\ ePc = "load_model"
    /\ model' = "loaded"
    /\ tokenizer' = "loaded"
    /\ ePc' = "loop"
    /\ UNCHANGED <<ePs, eSummary, eMaxRetries, eLog, eOut, valVars, heurVars, refVars, laterVars>>

\* load_model fails at the tokenizer or at the model, logs and re-raises: the
\* call of line 171 is outside every try
LoadModelRaises ==
    /\ ePc = "load_model"
    /\ model = "None"
    /\ \E at \in {"tokenizer", "model"} :
         tokenizer' = IF at = "model" THEN "loaded" ELSE tokenizer
    /\ eOut' = Raise("OSError", Null)
    /\ ePc' = "done"
    /\ UNCHANGED <<model, ePs, eSummary, eMaxRetries, eLog, valVars, heurVars, refVars, laterVars>>

\* an attempt whose tokenize, generate or decode raises: caught at line 224
AttemptRaises ==
    /\ ePc = "loop"
    /\ Len(eLog) < eMaxRetries
    /\ eLog' = Append(eLog, [class |-> "exception", parsed |-> NotFound])
    /\ UNCHANGED <<model, tokenizer, ePc, ePs, eSummary, eMaxRetries, eOut, valVars, heurVars, refVars, laterVars>>

\* an attempt that decodes a text: parse, validate, return or go on
AttemptYields ==
    /\ ePc = "loop"
    /\ Len(eLog) < eMaxRetries
    /\ \E text \in GenOutputs :
         LET a == AttemptOn(text) IN
         /\ eLog' = Append(eLog, [class |-> a.class, parsed |-> a.parsed])
         /\ eOut' = a.out
         /\ ePc' = IF a.class = "validated" THEN "done" ELSE "loop"
    /\ UNCHANGED <<model, tokenizer, ePs, eSummary, eMaxRetries, valVars, heurVars, refVars, laterVars>>

\* line 229, after the loop: the default evaluation is returned, or what it raises
Fallback ==
    /\ ePc = "loop"
    /\ Len(eLog) = eMaxRetries
    /\ eOut' = GetDefaultEvaluation(ePs, eSummary)
    /\ ePc' = "done"
    /\ UNCHANGED <<model, tokenizer, ePs, eSummary, eMaxRetries, eLog, valVars, heurVars, refVars, laterVars>>

\* the caller has the outcome; the evaluator keeps what it loaded
EvaluateDone ==
    /\ ePc = "done"
    /\ ePc' = "idle"
    /\ UNCHANGED <<model, tokenizer, ePs, eSummary, eMaxRetries, eLog, eOut, valVars, heurVars, refVars, laterVars>>

Next ==
    \/ EvaluateCall \/ LoadModelOk \/ LoadModelRaises
    \/ AttemptRaises \/ AttemptYields \/ Fallback \/ EvaluateDone

Init == EvalInit

Spec == Init /\ [][Next]_vars

(***************************************************************************)
(* Claims about evaluate (Spec).                                           *)
(***************************************************************************)
\* the call ended in load_model, before any attempt
LoadFailed == eOut.kind = "raise" /\ eOut.exc = "OSError"

\* the call is over and every attempt it made decoded a text with no JSON in it
AllAttemptsUnparsable ==
    /\ ePc = "done"
    /\ ~LoadFailed
    /\ \A i \in 1..Len(eLog) : eLog[i].class = "not_found"

\* C1: when every generation attempt yields text from which no JSON can be
\* extracted, evaluate makes exactly max_retries attempts and then returns a
\* report, the one generate_heuristic_evaluation gives for the same inputs.
C1_ExhaustedRetriesReturnHeuristicReport ==
    AllAttemptsUnparsable =>
        /\ Len(eLog) = eMaxRetries
        /\ eOut.kind = "return"
        /\ eOut = GenerateHeuristicEvaluation(ePs, eSummary)

\* The part of C1 that does not depend on the scorer returning: max_retries
\* attempts are made and the outcome is the outcome of the heuristic scorer.
ExhaustedRetriesDelegateToHeuristic ==
    AllAttemptsUnparsable =>
        /\ Len(eLog) = eMaxRetries
        /\ eOut = GenerateHeuristicEvaluation(ePs, eSummary)

\* C2: evaluate never raises to its caller: whatever the generation source and
\* the loading of the model do, the call returns an evaluation report.
C2_EvaluateNeverRaises ==
    ePc = "done" => eOut.kind = "return"

(***************************************************************************)
(* PPTReconstructor.create_ppt                                             *)
(***************************************************************************)
\* d.get(k, default)
Get(d, k, default) == IF k \in DOMAIN d THEN d[k] ELSE default

\* whether k in v is a TypeError: v is no container
PyInRaises(v) == v.t \in {"num", "null"}

\* k in v for a str (substring), a list (element) or a dict (key)
PyIn(k, v) ==
    CASE v.t = "str"  -> Contains(v.s, k)
      [] v.t = "list" -> \E i \in 1..Len(v.l) : v.l[i] = Str(k)
      [] v.t = "obj"  -> k \in DOMAIN v.o
      [] OTHER -> FALSE

\* lines 161-164: the slide layout a layout name selects
LayoutIndex(layout_name) ==
    IF PyIn("Title Slide", layout_name) THEN 0
    ELSE IF PyIn("Section Header", layout_name) THEN 2
    ELSE IF PyIn("Two Content", layout_name) THEN 3
    ELSE 1

\* lines 155-192 for one element of the slide list: the exception it raises,
\* or none.  Assigning the text of the title shape takes a str (python-pptx
\* raises TypeError on anything else); set_text_frame ignores what is neither
\* a str nor a list.
SlideOutcome(slide_data) ==
    IF slide_data.t # "obj" THEN "AttributeError"
    ELSE LET layout_name == Get(slide_data.o, "layout", Str("Title and Content"))
             title_text == Get(slide_data.o, "title", Str("Untitled"))
             content_data == Get(slide_data.o, "content", Obj(EmptyMap)) IN
         IF PyInRaises(layout_name) THEN "TypeError"
         ELSE IF title_text.t # "str" THEN "TypeError"
         ELSE IF LayoutIndex(layout_name) = 2 THEN "none"
         ELSE IF content_data.t # "obj" THEN "AttributeError"
         ELSE IF /\ LayoutIndex(layout_name) = 0
                 /\ "title" \in DOMAIN content_data.o
                 /\ content_data.o["title"].t # "str" THEN "TypeError"
         ELSE "none"

\* what the loop of line 154 iterates over: the elements of a list, the
\* characters of a str, the keys of a dict
Iterated(v) ==
    CASE v.t = "list" -> v.l
      [] v.t = "str"  -> [i \in 1..Len(v.s) |-> Str(SubSeq(v.s, i, i))]
      [] v.t = "obj"  -> IF DOMAIN v.o = {} THEN <<>> ELSE <<Str(CHOOSE k \in DOMAIN v.o : TRUE)>>
      [] OTHER -> <<>>

\* self.output_dir / filename
OutputPath(filename) == "generated_ppts/" \o filename

\* create_ppt(structure, filename): the outcome, and the files it wrote.  saved
\* is whether prs.save finds the output directory writable.
CreatePpt(structure, filename, saved) ==
    IF structure.t # "obj" THEN [out |-> Raise("AttributeError", Null), written |-> {}]
    ELSE LET slides == Get(structure.o, "slides", List(<<>>)) IN
         IF slides.t \in {"num", "null"} THEN [out |-> Raise("TypeError", Null), written |-> {}]
         ELSE LET l == Iterated(slides)
                  bad == {i \in 1..Len(l) : SlideOutcome(l[i]) # "none"} IN
              IF bad # {} THEN [out |-> Raise(SlideOutcome(l[Min(bad)]), Null), written |-> {}]
              ELSE IF ~saved THEN [out |-> Raise("OSError", Null), written |-> {}]
              ELSE [out |-> Ret(Str(OutputPath(filename))), written |-> {OutputPath(filename)}]

(***************************************************************************)
(* PPTReconstructor.refine_structure                                       *)
(***************************************************************************)
\* the characters hash tells apart, each with its code; any other counts 0
HashChars == LOWER \o UPPER \o DIGITS \o " "
CodeOf == [c \in CharsOf(HashChars) |->
              CHOOSE j \in 1..Len(HashChars) : SubSeq(HashChars, j, j) = c]

\* hash(s) of a str: within one process a fixed function of the characters,
\* taken here as a polynomial of the character codes in 16 bits
HashWidth == 65536
RECURSIVE HashFrom(_, _, _)
HashFrom(s, i, h) ==
    IF i > Len(s) THEN h
    ELSE LET c == SubSeq(s, i, i)
             code == IF c \in DOMAIN CodeOf THEN CodeOf[c] ELSE 0 IN
         HashFrom(s, i + 1, (h * 31 + code) % HashWidth)
Hash(s) == HashFrom(s, 1, 7)

\* line 267: the file name of a refined deck
RefinedFileName(user_instruction) ==
    "refined_" \o IntStr(Hash(Take(user_instruction, 20))) \o ".pptx"

\* a slip that drops the slides test of line 258
RefineRejectsOnEmptyOnly(new_structure) == ~Truthy(new_structure)
\* line 258 on a parsed value that can be asked for a member: the refinement
\* is rejected
RefineRejects(new_structure) ==
    ~Truthy(new_structure) \/ ~PyIn("slides", new_structure)

\* a slip that hands back the path of the deck made earlier
RejectedResultWithStalePath(current_structure) ==
    [structure |-> current_structure, file_path |-> Str(OutputPath("reconstructed.pptx"))]
\* lines 261-264: what a rejected refinement returns
RejectedResult(current_structure) ==
    [structure |-> current_structure, file_path |-> Null]

\* refine_structure from line 256 on, given the text generate_response
\* returned: the outcome, the branch taken and the files written
RefineStructure(current_structure, user_instruction, response_text, saved) ==
    LET new_structure == GeminiExtractJson(response_text) IN
    IF Truthy(new_structure) /\ PyInRaises(new_structure)
    THEN [out |-> Raise("TypeError", Null), branch |-> "raised", written |-> {}]
    ELSE IF RefineRejects(new_structure)
    THEN [out |-> Ret(RejectedResult(current_structure)), branch |-> "rejected", written |-> {}]
    ELSE LET c == CreatePpt(new_structure, RefinedFileName(user_instruction), saved) IN
         IF c.out.kind = "raise"
         THEN [out |-> c.out, branch |-> "raised", written |-> c.written]
         ELSE [out |-> Ret([structure |-> new_structure, file_path |-> c.out.v]),
               branch |-> "applied", written |-> c.written]

(***************************************************************************)
(* main.py: chat_reconstruction_endpoint                                   *)
(***************************************************************************)
\* Path(p).name
BaseName(p) ==
    LET slashes == {i \in 1..Len(p) : SubSeq(p, i, i) = "/"}
        last == IF slashes = {} THEN 0 ELSE Max(slashes) IN
    SubSeq(p, last + 1, Len(p))

\* lines 260-279: the response to the outcome of refine_structure
ChatResponse(out) ==
    IF out.kind = "raise"
    THEN [status |-> 500, detail |-> "Chat refinement failed: " \o out.exc]
    ELSE IF ~Truthy(out.v.file_path)
    THEN [status |-> 500, detail |-> "Chat refinement failed: Failed to generate refined PPT"]
    ELSE [status |-> 200, structure |-> out.v.structure, file_path |-> out.v.file_path.s,
          download_url |-> "/generated/" \o BaseName(out.v.file_path.s)]

(***************************************************************************)
(* The chat requests and the texts the generation source answers with.     *)
(***************************************************************************)
\* request.current_structure: a deck of one slide, a dict without slides, {}
ChatStructures ==
    { Obj([slides |-> List(<<Obj([title |-> Str("Problem"),
                                  layout |-> Str("Title and Content"),
                                  content |-> Obj([bullets |-> List(<<Str("Pain")>>)])])>>)]),
      Obj([deck |-> List(<<>>)]),
      Obj(EmptyMap) }

\* request.user_message; the first two agree in their first 20 characters
ChatInstructions ==
    { "Add a slide about the market size",
      "Add a slide about the team",
      "Shorten it",
      "" }

\* {"title": "Market", "content": {"bullets": ["TAM"]}}
MarketSlide ==
    <<LB, TSTR("title"), COLON, TSTR("Market"), COMMA, TSTR("content"), COLON,
      LB, TSTR("bullets"), COLON, LK, TSTR("TAM"), RK, RB, RB>>
\* {"title": "Team", "layout": "Title Slide", "content": "founders"}
TeamSlide ==
    <<LB, TSTR("title"), COLON, TSTR("Team"), COMMA, TSTR("layout"), COLON,
      TSTR("Title Slide"), COMMA, TSTR("content"), COLON, TSTR("founders"), RB>>
\* {"slides": ... }
SlidesObject(value) == <<LB, TSTR("slides"), COLON>> \o value \o <<RB>>

\* response.text of a generation that succeeded
RefineTexts ==
    { <<WORD, WORD, WORD>>,
      <<LB, TSTR("slides"), COLON, LK>>,
      <<LB, RB>>,
      <<LB, TSTR("deck"), COLON, LK, RK, RB>>,
      <<WORD, LB, TSTR("deck"), COLON, LK, RK, RB, WORD>>,
      <<TNULL>>,
      <<TNUM(0)>>,
      <<TNUM(70)>>,
      <<TSTR("slides")>>,
      <<LK, TSTR("slides"), RK>>,
      SlidesObject(<<LK, RK>>),
      SlidesObject(<<LK>> \o MarketSlide \o <<RK>>),
      <<WORD>> \o SlidesObject(<<LK>> \o MarketSlide \o <<RK>>) \o <<WORD>>,
      <<FENCEJSON>> \o SlidesObject(<<LK>> \o MarketSlide \o <<RK>>) \o <<FENCE>>,
      SlidesObject(<<LK>> \o TeamSlide \o <<RK>>),
      SlidesObject(<<LK, TNUM(70), RK>>),
      SlidesObject(<<TNULL>>),
      SlidesObject(<<TSTR("")>>),
      SlidesObject(<<TSTR("none")>>) }

\* Error: GEMINI_API_KEY not set.
NoKeyText == <<WORD, COLON, WORD, WORD, WORD>>

\* str(e) of an exception of generate_content: plain words, or words with a
\* JSON error body
ErrorMessages ==
    { <<WORD, WORD>>,
      <<WORD, LB, TSTR("error"), COLON, TSTR("quota"), RB>> }

(***************************************************************************)
(* A /reconstruct/chat request: the request arrives, generate_response     *)
(* answers, refine_structure and the endpoint run to the response.         *)
(***************************************************************************)
exceptRef == <<valVars, heurVars, evalVars, laterVars>>

RefInit ==
    /\ ValIdle /\ HeurIdle /\ EvalIdle /\ LaterIdle
    /\ apiKey \in BOOLEAN /\ files = {}
    /\ rPc = "idle" /\ rGiven = Null /\ rCurrent = Null /\ rInstruction = ""
    /\ rText = <<>> /\ rBranch = "none" /\ rWritten = {}
    /\ rResult = NoCall /\ rResponse = NoCall

\* main.py 251-258 and refine_structure up to line 255: the prompt is built
ChatRequest ==
    /\ rPc = "idle"
    /\ \E structure \in ChatStructures, message \in ChatInstructions :
        /\ rGiven' = structure /\ rCurrent' = structure
        /\ rInstruction' = message
    /\ rText' = <<>> /\ rBranch' = "none" /\ rWritten' = {}
    /\ rResult' = NoCall /\ rResponse' = NoCall
    /\ rPc' = "generating"
    /\ UNCHANGED <<apiKey, files, exceptRef>>

\* gemini_evaluator.py 26-27
GenerateWithoutKey ==
    /\ rPc = "generating" /\ ~apiKey
    /\ rText' = NoKeyText
    /\ rPc' = "refining"
    /\ UNCHANGED <<apiKey, files, rGiven, rCurrent, rInstruction, rBranch, rWritten,
                   rResult, rResponse, exceptRef>>

\* gemini_evaluator.py 32-34
GenerateRaises ==
    /\ rPc = "generating" /\ apiKey
    /\ \E message \in ErrorMessages : rText' = <<WORD, COLON>> \o message
    /\ rPc' = "refining"
    /\ UNCHANGED <<apiKey, files, rGiven, rCurrent, rInstruction, rBranch, rWritten,
                   rResult, rResponse, exceptRef>>

\* gemini_evaluator.py 30-31
GenerateReturns ==
    /\ rPc = "generating" /\ apiKey
    /\ \E text \in RefineTexts : rText' = text
    /\ rPc' = "refining"
    /\ UNCHANGED <<apiKey, files, rGiven, rCurrent, rInstruction, rBranch, rWritten,
                   rResult, rResponse, exceptRef>>

\* ppt_reconstructor.py 256-273 and main.py 260-279
RefineAndRespond ==
    /\ rPc = "refining"
    /\ \E saved \in BOOLEAN :
        LET r == RefineStructure(rCurrent, rInstruction, rText, saved) IN
        /\ rResult' = r.out
        /\ rBranch' = r.branch
        /\ rWritten' = r.written
        /\ files' = files \cup r.written
        /\ rResponse' = ChatResponse(r.out)
    /\ rPc' = "done"
    /\ UNCHANGED <<apiKey, rGiven, rCurrent, rInstruction, rText, exceptRef>>

\* the response is sent; the endpoint is ready for the next request
ChatDone ==
    /\ rPc = "done"
    /\ rPc' = "idle"
    /\ UNCHANGED <<apiKey, files, rGiven, rCurrent, rInstruction, rText, rBranch,
                   rWritten, rResult, rResponse, exceptRef>>

RefNext ==
    \/ ChatRequest
    \/ GenerateWithoutKey
    \/ GenerateRaises
    \/ GenerateReturns
    \/ RefineAndRespond
    \/ ChatDone

SpecRefine == RefInit /\ [][RefNext]_vars

\* the value extract_json_from_text made of the generated text
ParsedOutput == GeminiExtractJson(rText)

\* the generated text cannot be parsed, or parses to an object without slides
OutputUnusable ==
    \/ ParsedOutput = NotFound
    \/ ParsedOutput.t = "obj" /\ "slides" \notin DOMAIN ParsedOutput.o

C10_RejectionIsDistinguishable ==
    /\ (rPc = "done" /\ rResult.kind = "return") =>
           /\ (rResult.v.file_path = Null) <=> (rBranch = "rejected")
           /\ (rResult.v.file_path = Null) <=> (rWritten = {})
           /\ rBranch = "rejected" => rResult.v.structure = rGiven
           /\ rBranch # "rejected" =>
                  /\ rResult.v.structure = ParsedOutput
                  /\ rResult.v.file_path.t = "str"
                  /\ rWritten = {rResult.v.file_path.s}
    /\ (rPc = "done" /\ rBranch = "rejected") =>
           rResponse = [status |-> 500,
                        detail |-> "Chat refinement failed: Failed to generate refined PPT"]
    /\ (rPc = "done" /\ rResponse.status = 200) =>
           /\ rBranch = "applied"
           /\ rResponse.structure = ParsedOutput
           /\ rResponse.file_path \in files

\* a rejected refinement of a deck that has slides, answered by the endpoint
C10_Witness ==
    /\ rPc = "done" /\ rBranch = "rejected"
    /\ rGiven.t = "obj" /\ "slides" \in DOMAIN rGiven.o
    /\ rResponse.status = 500

(***************************************************************************)
(* PPTReconstructor.generate_structure and reconstruct_presentation        *)
(***************************************************************************)
\* the methods class LLMEvaluator defines (llm_evaluator.py); the reconstructor
\* holds an LLMEvaluator as its fallback_evaluator
LLMEvaluatorMethods ==
    { "__init__", "load_model", "extract_json_from_text", "validate_and_fix_response",
      "evaluate", "generate_heuristic_evaluation", "get_default_evaluation" }

\* lines 199-218: the fixed structure of three slides
FallbackStructure ==
    Obj([slides |-> List(<<
        Obj([title |-> Str("Project Title"), layout |-> Str("Title Slide"),
             content |-> Obj([title |-> Str("Project Name"),
                              subtitle |-> Str("Innovative Solution")])]),
        Obj([title |-> Str("Problem"), layout |-> Str("Title and Content"),
             content |-> Obj([bullets |-> List(<<Str("State the problem specifically"),
                                                 Str("Explain the pain point")>>)])]),
        Obj([title |-> Str("Solution"), layout |-> Str("Title and Content"),
             content |-> Obj([bullets |-> List(<<Str("Describe your solution"),
                                                 Str("Highlight key benefits")>>)])]) >>)])

\* lines 112-129, given the text of the primary source and the text the
\* alternate source would generate: the structure returned and the number of
\* generations requested from the alternate source.  Looking up a method the
\* fallback evaluator does not have raises AttributeError before anything is
\* requested; line 126 catches it.
GenerateStructure(primary_text, alternate_text) ==
    LET structure == GeminiExtractJson(primary_text) IN
    IF Truthy(structure) THEN [structure |-> structure, requests |-> 0]
    ELSE IF "generate_response" \notin LLMEvaluatorMethods
    THEN [structure |-> structure, requests |-> 0]
    ELSE [structure |-> LLMExtractJson(alternate_text), requests |-> 1]

\* line 44: the file name of a reconstructed deck
ReconstructedFileName(summary) ==
    "reconstructed_" \o IntStr(Hash(Take(summary, 20))) \o ".pptx"

\* lines 40-50, given what generate_structure returned: the outcome and the
\* files written
ReconstructPresentation(summary, generated, saved) ==
    IF Truthy(generated) /\ PyInRaises(generated)
    THEN [out |-> Raise("TypeError", Null), written |-> {}]
    ELSE LET structure == IF ~Truthy(generated) \/ ~PyIn("slides", generated)
                          THEN FallbackStructure ELSE generated
             c == CreatePpt(structure, ReconstructedFileName(summary), saved) IN
         IF c.out.kind = "raise" THEN c
         ELSE [out |-> Ret([file_path |-> c.out.v, structure |-> structure]),
               written |-> c.written]

\* the texts the primary source answers with: the sentinel when no key is set,
\* else a generated text or the sentinel of an exception
PrimaryTexts ==
    IF ~apiKey THEN {NoKeyText}
    ELSE RefineTexts \cup {<<WORD, COLON>> \o message : message \in ErrorMessages}

\* the texts the local model would decode to
AlternateTexts == { <<WORD, WORD>>, SlidesObject(<<LK, RK>>) }

\* request.presentation_summary
ReconstructSummaries == EvalSummaries \cup {"A marketplace for local farmers"}

exceptRec == <<valVars, heurVars, evalVars, refCallVars, parseVars, combVars, orchVars, apiVars, detVars, respVars, fixVars, srvVars, tmpVars>>

RecInit ==
    /\ ValIdle /\ HeurIdle /\ EvalIdle /\ LaterIdle
    /\ apiKey \in BOOLEAN /\ files = {}
    /\ rPc = "idle" /\ rGiven = Null /\ rCurrent = Null /\ rInstruction = ""
    /\ rText = <<>> /\ rBranch = "none" /\ rWritten = {}
    /\ rResult = NoCall /\ rResponse = NoCall

\* reconstruct_presentation is called; generate_structure builds the prompt
ReconstructCall ==
    /\ cPc = "idle"
    /\ \E summary \in ReconstructSummaries : cSummary' = summary
    /\ cText' = <<>> /\ cAltRequests' = 0 /\ cStructure' = Null /\ cResult' = NoCall
    /\ cPc' = "generating"
    /\ UNCHANGED <<apiKey, files, exceptRec>>

\* line 113: the primary source answers
PrimaryAnswers ==
    /\ cPc = "generating"
    /\ \E text \in PrimaryTexts : cText' = text
    /\ cPc' = "parsing"
    /\ UNCHANGED <<apiKey, files, cSummary, cAltRequests, cStructure, cResult, exceptRec>>

\* lines 118-129 and 40-50
ReconstructFinish ==
    /\ cPc = "parsing"
    /\ \E alternate_text \in AlternateTexts, saved \in BOOLEAN :
        LET g == GenerateStructure(cText, alternate_text)
            r == ReconstructPresentation(cSummary, g.structure, saved) IN
        /\ cAltRequests' = g.requests
        /\ cStructure' = g.structure
        /\ cResult' = r.out
        /\ files' = files \cup r.written
    /\ cPc' = "done"
    /\ UNCHANGED <<apiKey, cSummary, cText, exceptRec>>

\* the caller has the result; the reconstructor is ready for the next call
ReconstructDone ==
    /\ cPc = "done"
    /\ cPc' = "idle"
    /\ UNCHANGED <<apiKey, files, cSummary, cText, cAltRequests, cStructure, cResult,
                   exceptRec>>

RecNext ==
    \/ ReconstructCall
    \/ PrimaryAnswers
    \/ ReconstructFinish
    \/ ReconstructDone

SpecReconstruct == RecInit /\ [][RecNext]_vars

\* C11: when the output of the primary source fails to parse, exactly one
\* generation is requested from the alternate source, and the fixed three-slide
\* structure is returned only after the alternate source was tried as well.
C11_PrimaryThenAlternateThenFallback ==
    cPc = "done" =>
        /\ GeminiExtractJson(cText) = NotFound => cAltRequests = 1
        /\ (cResult.kind = "return" /\ cResult.v.structure = FallbackStructure) =>
               cAltRequests = 1

\* What the code does instead: no generation is ever requested from the
\* alternate source, and an output that is unparsable, empty or without slides
\* goes straight to the fixed structure.
ReconstructNeverAsksAlternate ==
    cPc = "done" =>
        /\ cAltRequests = 0
        /\ (~Truthy(cStructure) /\ cResult.kind = "return") =>
               cResult.v.structure = FallbackStructure

(***************************************************************************)
(* The two extract_json_from_text methods applied to one text.             *)
(***************************************************************************)
\* what stands between the commentary: a JSON object, a deck, a list, an
\* empty object, a number, prose, a truncated object
ParsePayloads ==
    { <<LB, TSTR("key"), COLON, TSTR("value"), COMMA, TSTR("number"), COLON, TNUM(42), RB>>,
      SlidesObject(<<LK, RK>>),
      <<LK, TNUM(1), COMMA, TNUM(2), RK>>,
      <<LB, RB>>,
      <<TNUM(70)>>,
      <<WORD, WORD>>,
      <<LB, TSTR("key"), COLON>> }

\* commentary around the payload: none, words, words with a braced remark,
\* words with an empty object
ParseCommentary ==
    { <<>>, <<WORD, WORD>>, <<WORD, LB, WORD, RB>>, <<WORD, LB, RB>> }

\* str(e) of an upstream exception, and the tail of the no-key sentinel
SentinelMessages == ErrorMessages \cup {<<WORD, WORD, WORD>>, SlidesObject(<<LK, RK>>)}

\* the text the parsers are given
ParsedText ==
    IF pKind = "fenced"
    THEN pPre \o <<FENCEJSON>> \o pPayload \o <<FENCE>> \o pPost
    ELSE pPre \o pPayload \o pPost

exceptParse == <<valVars, heurVars, evalVars, refVars, recVars, combVars, orchVars, apiVars, detVars, respVars, fixVars, srvVars, tmpVars>>

ParseInit ==
    /\ ValIdle /\ HeurIdle /\ EvalIdle /\ RefIdle /\ LaterIdleExcept("parse")
    /\ pOut = NoCall
    /\ \/ /\ pKind \in {"plain", "fenced"}
          /\ pPre \in ParseCommentary /\ pPayload \in ParsePayloads /\ pPost \in ParseCommentary
       \/ /\ pKind = "sentinel"
          /\ pPre = <<WORD, COLON>> /\ pPayload \in SentinelMessages /\ pPost = <<>>

\* both parsers are applied to the text
ParseCall ==
    /\ pOut = NoCall
    /\ pOut' = [llm |-> LLMExtractJson(ParsedText), gemini |-> GeminiExtractJson(ParsedText)]
    /\ UNCHANGED <<pKind, pPre, pPayload, pPost, exceptParse>>

SpecParse == ParseInit /\ [][ParseCall]_vars

HasBraces(t) == Positions(t, LB) # {} \/ Positions(t, RB) # {}
HasFences(t) == Positions(t, FENCEJSON) # {} \/ Positions(t, FENCE) # {}

\* the first success of: the span from the first to the last brace, the
\* interior of the fenced block when fence markers are present, the whole text
FirstSuccessInOrder(t) ==
    LET span == BraceMatch(t)
        interior == IF Positions(t, FENCEJSON) # {} THEN FenceInterior(t, FENCEJSON)
                    ELSE FenceInterior(t, FENCE) IN
    IF span.found /\ JsonLoads(span.s).ok THEN JsonLoads(span.s).v
    ELSE IF HasFences(t) /\ JsonLoads(interior).ok THEN JsonLoads(interior).v
    ELSE IF JsonLoads(t).ok THEN JsonLoads(t).v
    ELSE NotFound

\* C12: GeminiEvaluator.extract_json_from_text returns the first success of
\* the three strategies in their order and NotFound when all fail; an object
\* surrounded by brace-free commentary comes back as that object; a text with
\* no braces that is not valid JSON gives NotFound.
C12_StrategiesInOrder ==
    pOut # NoCall =>
        /\ pOut.gemini = FirstSuccessInOrder(ParsedText)
        /\ ( /\ pKind = "plain" /\ ~HasBraces(pPre) /\ ~HasBraces(pPost)
             /\ JsonLoads(pPayload).ok /\ JsonLoads(pPayload).v.t = "obj" ) =>
               pOut.gemini = JsonLoads(pPayload).v
        /\ (~HasBraces(ParsedText) /\ ~JsonLoads(ParsedText).ok) => pOut.gemini = NotFound

\* The part of C12 that holds: the order of the strategies and the object
\* between brace-free commentary, for both parsers in the second case.
StrategiesInOrderAndNoiseIgnored ==
    pOut # NoCall =>
        /\ pOut.gemini = FirstSuccessInOrder(ParsedText)
        /\ ( /\ pKind = "plain" /\ ~HasBraces(pPre) /\ ~HasBraces(pPost)
             /\ JsonLoads(pPayload).ok /\ JsonLoads(pPayload).v.t = "obj" ) =>
               /\ pOut.gemini = JsonLoads(pPayload).v
               /\ pOut.llm = JsonLoads(pPayload).v

\* C13: for both parsers, a text in which a JSON payload stands between json
\* fences, with or without commentary outside the fences, parses to what the
\* payload alone parses to.
C13_FencedParsesAsInterior ==
    (pOut # NoCall /\ pKind = "fenced" /\ JsonLoads(pPayload).ok) =>
        /\ pOut.llm = LLMExtractJson(pPayload)
        /\ pOut.gemini = GeminiExtractJson(pPayload)

\* C14: every error sentinel of generate_response parses to NotFound.
C14_SentinelIsParseFailure ==
    (pOut # NoCall /\ pKind = "sentinel") => pOut.gemini = NotFound

(***************************************************************************)
(* The score combination of evaluate_presentation (lines 82-85).           *)
(***************************************************************************)
\* the one-decimal grid of [MIN_SCORE, MAX_SCORE], in tenths
ScoreGrid == Tenths(MIN_SCORE)..Tenths(MAX_SCORE)

\* round to the nearest multiple of unit, and round(x, 1) for x = n/100, in
\* tenths.  The code rounds a binary float that
\* lies within rounding error of n/100: off a tie that is the nearest tenth,
\* at a tie (n ends in 5) the error decides, so either neighbour can come out.
RoundHalf(n, unit) ==
    LET q == n \div unit
        r == n % unit IN
    IF 2 * r < unit THEN {q} ELSE IF 2 * r > unit THEN {q + 1} ELSE {q, q + 1}
RoundToTenth(n) == RoundHalf(n, 10)

\* a slip that swaps the two weights
CombineSwapped(original_relevance, semantic_score) ==
    RoundToTenth(3 * original_relevance + 7 * semantic_score)
\* round(0.7 * original_relevance + 0.3 * semantic_score, 1), both in tenths:
\* the values the result can take
Combine(original_relevance, semantic_score) ==
    RoundToTenth(7 * original_relevance + 3 * semantic_score)

exceptComb == <<valVars, heurVars, evalVars, refVars, recVars, parseVars, orchVars, apiVars, detVars, respVars, fixVars, srvVars, tmpVars>>

CombInit ==
    /\ ValIdle /\ HeurIdle /\ EvalIdle /\ RefIdle /\ LaterIdleExcept("comb")
    /\ kJ \in ScoreGrid /\ kS \in ScoreGrid
    /\ kOut = NoCall /\ kPrev = NoCall

\* the combination is computed for the two scores
CombineCall ==
    /\ kOut = NoCall
    /\ \E adjusted \in Combine(kJ, kS) : kOut' = Ret(adjusted)
    /\ UNCHANGED <<kJ, kS, kPrev, exceptComb>>

\* it is computed again with a higher judgment relevance (the arithmetic is a
\* function of its arguments, so the same arguments give the same result)
CombineHigherJudgment ==
    /\ kOut # NoCall /\ kPrev = NoCall
    /\ \E j \in (kJ + 1)..Tenths(MAX_SCORE) :
        /\ kJ' = j
        /\ \E adjusted \in Combine(j, kS) : kOut' = Ret(adjusted)
    /\ kPrev' = [j |-> kJ, s |-> kS, out |-> kOut.v]
    /\ UNCHANGED <<kS, exceptComb>>

\* it is computed again with a higher similarity score
CombineHigherSimilarity ==
    /\ kOut # NoCall /\ kPrev = NoCall
    /\ \E sim \in (kS + 1)..Tenths(MAX_SCORE) :
        /\ kS' = sim
        /\ \E adjusted \in Combine(kJ, sim) : kOut' = Ret(adjusted)
    /\ kPrev' = [j |-> kJ, s |-> kS, out |-> kOut.v]
    /\ UNCHANGED <<kJ, exceptComb>>

CombNext ==
    \/ CombineCall
    \/ CombineHigherJudgment
    \/ CombineHigherSimilarity

SpecCombine == CombInit /\ [][CombNext]_vars

MaxSlides == 2

\* a number held in hundredths (the similarity score has two decimals)
Num100(n) == [t |-> "num100", n |-> n]

\* cosine similarities of the two embeddings, in ten-thousandths
Similarities == {0 - 2500, 0, 3335, 8000, 10000}

\* semantic_scorer.py lines 97-110 on a similarity: max(0, min(10, similarity
\* * 10)) rounded to two decimals, in hundredths
RelevanceScore(similarity) ==
    LET capped == IF similarity < 10000 THEN similarity ELSE 10000
        score == IF capped > 0 THEN capped ELSE 0 IN
    RoundHalf(score, 10)

\* the neutral score of the except branch, 5.0, in hundredths
NeutralScore == 500

\* the texts the judgment model decodes during a pipeline run
JudgeTexts ==
    {<<WORD, WORD>>,
     <<LB, TSTR("scores"), COLON, LB, TSTR("relevance"), COLON, TNUM(90), RB, RB>>,
     <<LB, TSTR("scores"), COLON, LB, TSTR("relevance"), COLON, TNUM(80), COMMA,
       TSTR("innovation"), COLON, TNUM(70), RB, RB>>,
     <<LB, TSTR("scores"), COLON, LB, TSTR("relevance"), COLON, TNUM(100), COMMA,
       TSTR("clarity"), COLON, TNUM(100), COMMA, TSTR("technical_accuracy"), COLON,
       TNUM(100), COMMA, TSTR("structure"), COLON, TNUM(100), COMMA,
       TSTR("completeness"), COLON, TNUM(100), COMMA, TSTR("innovation"), COLON,
       TNUM(100), RB, RB>>}

\* what llm_evaluator.evaluate can hand back for these arguments: the failure
\* of load_model (line 171), a validated report of an attempt, or the default
\* evaluation after the attempts (line 229)
EvaluateOutcomes(problem_statement, presentation_summary) ==
    {Raise("OSError", Null)}
        \cup {AttemptOn(text).out : text \in {t \in JudgeTexts : AttemptOn(t).class = "validated"}}
        \cup {GetDefaultEvaluation(problem_statement, presentation_summary)}

\* str(e) of the exceptions met here
ExceptionText(exc) ==
    CASE exc = "ZeroDivisionError" -> "division by zero"
      [] exc = "OSError" -> "model files unavailable"
      [] OTHER -> exc

\* a slip that enters the failed stage again
StageRaisedAndRetried(stage, message) == [pc |-> stage, result |-> NoCall]
\* lines 105-107: whatever a stage raises ends the call with one exception
StageRaised(stage, message) ==
    [pc |-> "done",
     result |-> Raise("Exception", Str("Evaluation pipeline failed: " \o message))]

\* round(0.7 * original_relevance + 0.3 * semantic_score, 1): the judgment
\* relevance in tenths, the similarity score in hundredths, the result in tenths
Adjusted(original_relevance, semantic_score) ==
    RoundHalf(70 * original_relevance + 3 * semantic_score, 100)

\* lines 87-97 on the report of the judgment
FinishReport(llm_evaluation, slide_count, semantic_score, adjusted_relevance, presentation_summary) ==
    LET original_relevance == llm_evaluation["scores"].o["relevance"]
        scores == Put(llm_evaluation["scores"].o, "relevance", Num(adjusted_relevance))
        metadata ==
            [k \in {"slide_count", "semantic_relevance_score", "llm_relevance_score",
                    "adjusted_relevance_score"} |->
                CASE k = "slide_count" -> Num(Tenths(slide_count))
                  [] k = "semantic_relevance_score" -> Num100(semantic_score)
                  [] k = "llm_relevance_score" -> original_relevance
                  [] k = "adjusted_relevance_score" -> Num(adjusted_relevance)]
        r1 == Put(llm_evaluation, "scores", Obj(scores))
        r2 == Put(r1, "overall_score", Num(SumValues(scores)))
        r3 == Put(r2, "metadata", Obj(metadata)) IN
    Obj(Put(r3, "presentation_summary", Str(presentation_summary)))

exceptOrch == <<valVars, heurVars, evalVars, refVars, recVars, parseVars, combVars, apiVars, detVars, respVars, fixVars, srvVars, tmpVars>>

OrchInit ==
    /\ ValIdle /\ HeurIdle /\ EvalIdle /\ RefIdle /\ LaterIdle

\* a caller enters evaluate_presentation(ppt_file_path, problem_statement)
PipelineCall ==
    /\ oPc = "idle"
    /\ \E ps \in EvalProblemStatements : oPs' = ps
    /\ oPc' = "extract"
    /\ oSlideCount' = 0 /\ oSummary' = "" /\ oSemantic' = NoCall /\ oJudgment' = NoCall
    /\ oLog' = <<>> /\ oResult' = NoCall
    /\ UNCHANGED <<pipeline, scorerModel, exceptOrch>>

\* step 1, line 53: the extractor reads the deck
ExtractReturns ==
    /\ oPc = "extract"
    /\ \E n \in 0..MaxSlides : oSlideCount' = n
    /\ oLog' = Append(oLog, "extract")
    /\ oPc' = "summarize"
    /\ UNCHANGED <<pipeline, scorerModel, oPs, oSummary, oSemantic, oJudgment, oResult, exceptOrch>>

\* the deck cannot be read: ppt_extractor.py lines 114-116 raise
ExtractRaises ==
    /\ oPc = "extract"
    /\ oLog' = Append(oLog, "extract")
    /\ LET f == StageRaised("extract", "Failed to extract PowerPoint content: Package not found") IN
       oPc' = f.pc /\ oResult' = f.result
    /\ UNCHANGED <<pipeline, scorerModel, oPs, oSlideCount, oSummary, oSemantic, oJudgment, exceptOrch>>

\* step 2, line 58: the summariser returns the summary
SummarizeReturns ==
    /\ oPc = "summarize"
    /\ pipeline' = "loaded"
    /\ \E sm \in EvalSummaries : oSummary' = sm
    /\ oLog' = Append(oLog, "summarize")
    /\ oPc' = "score"
    /\ UNCHANGED <<scorerModel, oPs, oSlideCount, oSemantic, oJudgment, oResult, exceptOrch>>

\* the summariser cannot load its pipeline: load_model re-raises, and
\* summarize_slides calls it at line 130 outside every try
SummarizeRaises ==
    /\ oPc = "summarize"
    /\ pipeline = "None"
    /\ oLog' = Append(oLog, "summarize")
    /\ LET f == StageRaised("summarize", ExceptionText("OSError")) IN
       oPc' = f.pc /\ oResult' = f.result
    /\ UNCHANGED <<pipeline, scorerModel, oPs, oSlideCount, oSummary, oSemantic, oJudgment, exceptOrch>>

\* step 3, semantic_scorer.py line 95: the first load of the embedding model
\* fails; load_model re-raises outside the try of calculate_relevance_score
ScoreLoadRaises ==
    /\ oPc = "score"
    /\ scorerModel = "None"
    /\ oLog' = Append(oLog, "score")
    /\ oSemantic' = Raise("OSError", Null)
    /\ LET f == StageRaised("score", ExceptionText("OSError")) IN
       oPc' = f.pc /\ oResult' = f.result
    /\ UNCHANGED <<pipeline, scorerModel, oPs, oSlideCount, oSummary, oJudgment, exceptOrch>>

\* the model is there or loads, encoding raises: lines 112-115 return 5.0
ScoreEncodeRaises ==
    /\ oPc = "score"
    /\ scorerModel' = "loaded"
    /\ oLog' = Append(oLog, "score")
    /\ oSemantic' = Ret(NeutralScore)
    /\ oPc' = "judge"
    /\ UNCHANGED <<pipeline, oPs, oSlideCount, oSummary, oJudgment, oResult, exceptOrch>>

\* the model is there or loads, the two texts are encoded and compared
ScoreReturns ==
    /\ oPc = "score"
    /\ scorerModel' = "loaded"
    /\ oLog' = Append(oLog, "score")
    /\ \E similarity \in Similarities : \E score \in RelevanceScore(similarity) :
         oSemantic' = Ret(score)
    /\ oPc' = "judge"
    /\ UNCHANGED <<pipeline, oPs, oSlideCount, oSummary, oJudgment, oResult, exceptOrch>>

\* step 4, lines 71-74: the judgment is returned
JudgeReturns ==
    /\ oPc = "judge"
    /\ \E out \in EvaluateOutcomes(oPs, oSummary) :
         /\ out.kind = "return"
         /\ oJudgment' = out
    /\ oLog' = Append(oLog, "judge")
    /\ oPc' = "combine"
    /\ UNCHANGED <<pipeline, scorerModel, oPs, oSlideCount, oSummary, oSemantic, oResult, exceptOrch>>

\* evaluate raises
JudgeRaises ==
    /\ oPc = "judge"
    /\ \E out \in EvaluateOutcomes(oPs, oSummary) :
         /\ out.kind = "raise"
         /\ oJudgment' = out
         /\ LET f == StageRaised("judge", ExceptionText(out.exc)) IN
            oPc' = f.pc /\ oResult' = f.result
    /\ oLog' = Append(oLog, "judge")
    /\ UNCHANGED <<pipeline, scorerModel, oPs, oSlideCount, oSummary, oSemantic, exceptOrch>>

\* lines 79-103: the relevance is combined and replaced, the sum and the
\* metadata are stored, the report is returned
CombineAndReturn ==
    /\ oPc = "combine"
    /\ \E adjusted \in Adjusted(oJudgment.v.o["scores"].o["relevance"].n, oSemantic.v) :
         oResult' = Ret(FinishReport(oJudgment.v.o, oSlideCount, oSemantic.v, adjusted, oSummary))
    /\ oLog' = Append(oLog, "combine")
    /\ oPc' = "done"
    /\ UNCHANGED <<pipeline, scorerModel, oPs, oSlideCount, oSummary, oSemantic, oJudgment, exceptOrch>>

\* the caller has the outcome; the orchestrator keeps its collaborators
PipelineDone ==
    /\ oPc = "done"
    /\ oPc' = "idle"
    /\ UNCHANGED <<pipeline, scorerModel, oPs, oSlideCount, oSummary, oSemantic, oJudgment, oLog,
                   oResult, exceptOrch>>

OrchNext ==
    \/ PipelineCall \/ ExtractReturns \/ ExtractRaises
    \/ SummarizeReturns \/ SummarizeRaises
    \/ ScoreLoadRaises \/ ScoreEncodeRaises \/ ScoreReturns
    \/ JudgeReturns \/ JudgeRaises \/ CombineAndReturn \/ PipelineDone

SpecPipeline == OrchInit /\ [][OrchNext]_vars

\* the stage entered last
LastStage == IF oLog = <<>> THEN "none" ELSE oLog[Len(oLog)]

\* the fields of a returned report that restate the inputs of the combination
ReportRestatesItsInputs ==
    oResult.kind = "return" =>
        LET r == oResult.v.o
            given == ScoresOf(oJudgment.v) IN
        /\ ScoresOf(oResult.v)["relevance"].t = "num"
        /\ ScoresOf(oResult.v)["relevance"].n \in Adjusted(given["relevance"].n, oSemantic.v)
        /\ r["metadata"].o["adjusted_relevance_score"] = ScoresOf(oResult.v)["relevance"]
        /\ r["metadata"].o["llm_relevance_score"] = given["relevance"]
        /\ r["metadata"].o["semantic_relevance_score"] = Num100(oSemantic.v)
        /\ r["metadata"].o["slide_count"] = Num(Tenths(oSlideCount))
        /\ \A k \in (DOMAIN given) \ {"relevance"} : ScoresOf(oResult.v)[k] = given[k]

\* C16: in every report evaluate_presentation returns, scores.relevance is the
\* combined value and equals metadata.adjusted_relevance_score, the metadata
\* restate the judgment relevance, the raw similarity score and the slide
\* count, the other four categories are the judgment's, and overall_score is
\* the sum of the five category scores after the replacement, within [0,50].
C16_ReportFieldsAndOverallSum ==
    oResult.kind = "return" =>
        /\ ReportRestatesItsInputs
        /\ oResult.v.o["overall_score"] = Num(SumOfCategories(ScoresOf(oResult.v), 1))
        /\ oResult.v.o["overall_score"].n \in 0..(Len(SCORE_CATEGORIES) * Tenths(MAX_SCORE))

NoStageTwice == \A i, j \in 1..Len(oLog) : i < j => oLog[i] # oLog[j]

C18_SimilarityNeverFailsPipeline ==
    /\ oSemantic.kind # "raise"
    /\ oSemantic.kind = "return" => oSemantic.v \in 0..(Tenths(MAX_SCORE) * 10)
    /\ (oPc \in {"done", "idle"}) => LastStage # "score"

\* what does hold of step 3: an encoding failure gives 5.0, every returned
\* score is in [0,10], and only the failed first load ends the call there
SimilarityFailsOnlyOnLoad ==
    /\ oSemantic.kind = "return" => oSemantic.v \in 0..(Tenths(MAX_SCORE) * 10)
    /\ (oPc \in {"done", "idle"} /\ LastStage = "score") =>
         oSemantic = Raise("OSError", Null)

(***************************************************************************)
(* models.py: the construction of an EvaluationResponse from a report      *)
(***************************************************************************)
\* a list of strings with at least min_items entries
IsStrList(d, k, min_items) ==
    /\ k \in DOMAIN d /\ d[k].t = "list" /\ Len(d[k].l) >= min_items
    /\ \A i \in 1..Len(d[k].l) : d[k].l[i].t = "str"

\* the field constraints of EvaluationScores and EvaluationResponse
ResponseFieldsValid(r) ==
    /\ "scores" \in DOMAIN r /\ r["scores"].t = "obj"
    /\ \A i \in 1..Len(SCORE_CATEGORIES) :
         /\ SCORE_CATEGORIES[i] \in DOMAIN r["scores"].o
         /\ r["scores"].o[SCORE_CATEGORIES[i]].t = "num"
         /\ r["scores"].o[SCORE_CATEGORIES[i]].n \in 0..100
    /\ "overall_score" \in DOMAIN r /\ r["overall_score"].t = "num"
    /\ r["overall_score"].n \in 0..500
    /\ IsStrList(r, "strengths", 1) /\ IsStrList(r, "weaknesses", 1)
    /\ IsStrList(r, "missing_elements", 0)
    /\ "detailed_analysis" \in DOMAIN r /\ r["detailed_analysis"].t = "obj"
    /\ \A k \in {"technical_depth", "business_viability", "presentation_flow"} :
         k \in DOMAIN r["detailed_analysis"].o /\ r["detailed_analysis"].o[k].t = "str"
    /\ "summary_evaluation" \in DOMAIN r /\ r["summary_evaluation"].t = "str"
    /\ Len(r["summary_evaluation"].s) >= 10

\* the validator of overall_score (lines 43-57): the sum of the five replaces
\* a value that is more than 0.1 away from it.  The values it can return: the
\* test abs(v - expected) > 0.1 is made on binary floats, so for two values
\* one tenth apart the rounding error decides it (40.1 against 40.0 is
\* replaced, 0.3 against 0.2 is kept)
ValidateOverallScore(v, scores) ==
    LET expected == SumOfCategories(scores, 1)
        diff == IF v > expected THEN v - expected ELSE expected - v IN
    IF diff > 1 THEN {expected} ELSE IF diff < 1 THEN {v} ELSE {v, expected}

\* the outcomes of the construction from a report: the model built, or the
\* ValidationError
EvaluationResponse(result) ==
    IF ~ResponseFieldsValid(result.o) THEN {Raise("ValidationError", result)}
    ELSE LET r == result.o
             scores == [k \in {SCORE_CATEGORIES[i] : i \in 1..Len(SCORE_CATEGORIES)} |->
                           r["scores"].o[k]]
             fields == (DOMAIN r) \cap
                       {"scores", "overall_score", "strengths", "weaknesses",
                        "detailed_analysis", "missing_elements", "summary_evaluation",
                        "metadata", "presentation_summary"} IN
         {Ret(Obj([k \in fields |->
                    CASE k = "scores" -> Obj(scores)
                      [] k = "overall_score" -> Num(overall)
                      [] OTHER -> r[k]])) :
            overall \in ValidateOverallScore(r["overall_score"].n, scores)}

(***************************************************************************)
(* main.py: the /evaluate endpoint                                         *)
(***************************************************************************)
\* Config.MAX_UPLOAD_SIZE
MAX_UPLOAD_SIZE == 50 * 1024 * 1024

\* s.endswith(suffix)
EndsWith(s, suffix) ==
    Len(s) >= Len(suffix) /\ SubSeq(s, Len(s) - Len(suffix) + 1, Len(s)) = suffix

\* s.strip()
Strip(s) ==
    LET inner == {i \in 1..Len(s) : SubSeq(s, i, i) \notin {" ", "\t", "\n", "\r"}} IN
    IF inner = {} THEN "" ELSE SubSeq(s, Min(inner), Max(inner))

\* a slip that lets an empty upload through
RejectionKeepingEmptyFiles(filename, file_size, problem_statement) ==
    IF ~EndsWith(filename, ".pptx")
    THEN "Invalid file format. Only .pptx files are supported."
    ELSE IF file_size > MAX_UPLOAD_SIZE THEN "File too large. Maximum size is 50MB"
    ELSE IF problem_statement = "" \/ Len(Strip(problem_statement)) < 10
    THEN "Problem statement must be at least 10 characters long"
    ELSE ""
\* lines 145-172: the detail of the HTTPException(400) the checks raise, in
\* their order, or the empty string when the request passes them
Rejection(filename, file_size, problem_statement) ==
    IF ~EndsWith(filename, ".pptx")
    THEN "Invalid file format. Only .pptx files are supported."
    ELSE IF file_size > MAX_UPLOAD_SIZE THEN "File too large. Maximum size is 50MB"
    ELSE IF file_size = 0 THEN "Empty file uploaded"
    ELSE IF problem_statement = "" \/ Len(Strip(problem_statement)) < 10
    THEN "Problem statement must be at least 10 characters long"
    ELSE ""

\* the requests sent to the endpoint
FileNames == {"deck.pptx", "deck.ppt", "deck.PPTX", "notes.txt", ".pptx", ""}
FileSizes == {0, 1, MAX_UPLOAD_SIZE, MAX_UPLOAD_SIZE + 1}
FormProblemStatements ==
    EvalProblemStatements \cup {"   short   ", "123456789", " 1234567890\n", "\t \n"}

\* what orch.evaluate_presentation hands back: a failure of the pipeline, or
\* the finished report of a judgment
PipelineOutcomes(problem_statement) ==
    {StageRaised("extract", "Failed to extract PowerPoint content: Package not found").result}
        \cup UNION {UNION {{Ret(FinishReport(out.v.o, 1, NeutralScore, adjusted, sm)) :
                                adjusted \in Adjusted(ScoresOf(out.v)["relevance"].n, NeutralScore)} :
                            out \in {o \in EvaluateOutcomes(problem_statement, sm) :
                                        o.kind = "return"}} :
                     sm \in EvalSummaries}

exceptApi == <<valVars, heurVars, evalVars, refVars, recVars, parseVars, combVars, orchVars, detVars, respVars, fixVars, srvVars, tmpVars>>

ApiInit ==
    /\ ValIdle /\ HeurIdle /\ EvalIdle /\ RefIdle /\ LaterIdle

\* a request reaches the handler: the checks of lines 145-172 reject it with
\* 400, or lines 178-180 write the upload to a temporary file
EvaluateRequest ==
    /\ aPc = "idle"
    /\ \E name \in FileNames, size \in FileSizes, ps \in FormProblemStatements :
         LET detail == Rejection(name, size, ps) IN
         /\ aFileName' = name /\ aSize' = size /\ aPs' = ps
         /\ IF detail # ""
            THEN /\ aResponse' = [status |-> 400, detail |-> detail]
                 /\ aPc' = "done" /\ aTemp' = aTemp /\ aCreated' = 0
            ELSE /\ aResponse' = NoCall
                 /\ aPc' = "evaluate" /\ aTemp' = aTemp \cup {"tmp.pptx"} /\ aCreated' = 1
    /\ aInvocations' = 0 /\ aOutcome' = NoCall
    /\ UNCHANGED exceptApi

\* lines 186-201 and the finally of 203-210: the orchestrator is called, its
\* report is converted, the temporary file is removed
EvaluateAndRespond ==
    /\ aPc = "evaluate"
    /\ \E out \in PipelineOutcomes(aPs) :
         /\ aOutcome' = out
         /\ \E response \in (IF out.kind = "return" THEN EvaluationResponse(out.v) ELSE {out}) :
            aResponse' = IF response.kind = "return"
                         THEN [status |-> 200, body |-> response.v]
                         ELSE [status |-> 500, detail |-> "Evaluation failed: " \o
                                  (IF response.v.t = "str" THEN response.v.s ELSE response.exc)]
    /\ aInvocations' = aInvocations + 1
    /\ aTemp' = aTemp \ {"tmp.pptx"}
    /\ aPc' = "done"
    /\ UNCHANGED <<aFileName, aSize, aPs, aCreated, exceptApi>>

\* the response is sent
RequestDone ==
    /\ aPc = "done"
    /\ aPc' = "idle"
    /\ UNCHANGED <<aFileName, aSize, aPs, aTemp, aCreated, aInvocations, aOutcome, aResponse,
                   exceptApi>>

ApiNext == EvaluateRequest \/ EvaluateAndRespond \/ RequestDone

SpecEndpoint == ApiInit /\ [][ApiNext]_vars

\* C19: a request with a file name that does not end in .pptx, an empty file,
\* a file larger than MAX_UPLOAD_SIZE or a problem statement of fewer than 10
\* characters after trimming gets a client error at once: no temporary file is
\* created, the orchestrator is not invoked, nothing is retried.
C19_InvalidRequestsRejectedAtOnce ==
    (/\ aPc # "idle" \/ aResponse # NoCall
     /\ \/ ~EndsWith(aFileName, ".pptx")
        \/ aSize = 0
        \/ aSize > MAX_UPLOAD_SIZE
        \/ Len(Strip(aPs)) < 10) =>
        /\ aResponse # NoCall /\ aResponse.status = 400
        /\ aCreated = 0 /\ aTemp = {}
        /\ aInvocations = 0 /\ aOutcome = NoCall

\* an empty file with a good name and problem statement has been rejected
C19_Witness ==
    /\ aPc = "done" /\ aFileName = "deck.pptx" /\ aSize = 0
    /\ aPs = "Build a web scraper" /\ aResponse.status = 400

(***************************************************************************)
(* generate_heuristic_evaluation called repeatedly on one evaluator.       *)
(***************************************************************************)
\* how many calls of the scorer one evaluator receives
MaxScorerCalls == 3

\* a slip that lets the baseline clarity drift with the calls made before
HeuristicCallCountingCalls(evaluator, problem_statement, presentation_summary) ==
    LET out == GenerateHeuristicEvaluation(problem_statement, presentation_summary) IN
    IF out.kind = "return"
    THEN Ret(Obj(Put(out.v.o, "overall_score",
                     Num(out.v.o["overall_score"].n + Len(evaluator.calls)))))
    ELSE out
\* the method on an evaluator in a given state (self): lines 231-361 read
\* nothing of self, no clock and no random source
HeuristicCall(evaluator, problem_statement, presentation_summary) ==
    GenerateHeuristicEvaluation(problem_statement, presentation_summary)

exceptDet == <<valVars, heurVars, evalVars, refVars, recVars, parseVars, combVars, orchVars,
              apiVars, respVars, fixVars, srvVars, tmpVars>>

DetInit ==
    /\ ValIdle /\ HeurIdle /\ EvalIdle /\ RefIdle /\ LaterIdleExcept("det")
    /\ dModel = "None"
    /\ dPs \in EvalProblemStatements /\ dSummary \in EvalSummaries
    /\ dCalls = <<>> /\ dFirst = NoCall /\ dOut = NoCall

\* the evaluator loads its model between two calls
ScorerModelLoads ==
    /\ dModel = "None"
    /\ dModel' = "loaded"
    /\ UNCHANGED <<dPs, dSummary, dCalls, dFirst, dOut, exceptDet>>

\* the scorer is called with other arguments
CallWithOtherArguments ==
    /\ Len(dCalls) < MaxScorerCalls
    /\ \E ps \in EvalProblemStatements, sm \in EvalSummaries :
         /\ <<ps, sm>> # <<dPs, dSummary>>
         /\ dCalls' = Append(dCalls, <<ps, sm>>)
    /\ UNCHANGED <<dModel, dPs, dSummary, dFirst, dOut, exceptDet>>

\* the scorer is called with dPs and dSummary
CallWithSameArguments ==
    /\ Len(dCalls) < MaxScorerCalls
    /\ LET out == HeuristicCall([model |-> dModel, calls |-> dCalls], dPs, dSummary) IN
       IF dFirst = NoCall
       THEN dFirst' = out /\ dOut' = dOut
       ELSE dOut' = out /\ dFirst' = dFirst
    /\ dCalls' = Append(dCalls, <<dPs, dSummary>>)
    /\ UNCHANGED <<dModel, dPs, dSummary, exceptDet>>

DetNext == ScorerModelLoads \/ CallWithOtherArguments \/ CallWithSameArguments

SpecDeterminism == DetInit /\ [][DetNext]_vars

MaxOverallGap == 2

\* scores of the tests (test_evaluation.py lines 186-192 and 208-214), low
\* scores, a score above ten, and a mapping without completeness
ResponseScores ==
    LET five(a, b, c, d, e) ==
            ("relevance" :> Num(a)) @@ ("clarity" :> Num(b)) @@ ("technical_accuracy" :> Num(c))
                @@ ("structure" :> Num(d)) @@ ("completeness" :> Num(e)) IN
    {five(85, 70, 90, 80, 75), five(80, 70, 90, 80, 80), five(1, 1, 0, 0, 0),
     five(100, 100, 100, 100, 100), five(110, 70, 90, 80, 80),
     ("relevance" :> Num(80)) @@ ("clarity" :> Num(70)) @@ ("technical_accuracy" :> Num(90))
        @@ ("structure" :> Num(80))}


ResponseData ==
    UNION {{Obj(("scores" :> Obj(sc)) @@ ("overall_score" :> Num(ov)) @@ st @@ wk @@ da @@ sg
                  @@ se @@ ("missing_elements" :> List(<<>>))) :
              ov \in {SumValues(sc) + g : g \in (0 - MaxOverallGap)..MaxOverallGap}
                        \cup {350, 550},
              st \in {"strengths" :> List(<<Str("Good")>>), "strengths" :> List(<<>>)},
              wk \in {"weaknesses" :> List(<<Str("Bad")>>)},
              da \in Opt("detailed_analysis", {GivenAnalysis}),
              sg \in Opt("improvement_suggestions", {List(<<Str("Improve")>>)}),
              se \in {"summary_evaluation" :> Str("Test evaluation"),
                      "summary_evaluation" :> Str("Too short")}} :
           sc \in ResponseScores}

exceptResp == <<valVars, heurVars, evalVars, refVars, recVars, parseVars, combVars, orchVars,
               apiVars, detVars, fixVars, srvVars, tmpVars>>

RespInit ==
    /\ ValIdle /\ HeurIdle /\ EvalIdle /\ RefIdle /\ LaterIdleExcept("resp")
    /\ mData \in ResponseData /\ mOut = NoCall

\* the model is constructed from the report
ConstructResponse ==
    /\ mOut = NoCall
    /\ mOut' \in EvaluationResponse(mData)
    /\ UNCHANGED <<mData, exceptResp>>

SpecResponse == RespInit /\ [][ConstructResponse]_vars

\* what the claims ask of a report: five category scores in [0,10], at least
\* one strength and one weakness, a missing_elements list, a summary
\* evaluation of at least 10 characters
HasStatedFields(d) ==
    /\ \A i \in 1..Len(SCORE_CATEGORIES) :
         SCORE_CATEGORIES[i] \in DOMAIN ScoresOf(d) /\ InRange(ScoresOf(d)[SCORE_CATEGORIES[i]])
    /\ IsStrList(d.o, "strengths", 1) /\ IsStrList(d.o, "weaknesses", 1)
    /\ IsStrList(d.o, "missing_elements", 0)
    /\ Len(d.o["summary_evaluation"].s) >= 10

\* C21: EvaluationResponse replaces a provided overall_score by the sum of
\* the five category scores whenever the two differ by more than 0.1 and
\* keeps the provided value when they differ by at most 0.1.
C21_OverallScoreCorrectedBeyondTenth ==
    (mOut # NoCall /\ HasStatedFields(mData) /\ "detailed_analysis" \in DOMAIN mData.o) =>
        LET v == mData.o["overall_score"].n
            expected == SumOfCategories(ScoresOf(mData), 1)
            diff == IF v > expected THEN v - expected ELSE expected - v IN
        /\ mOut.kind = "return"
        /\ mOut.v.o["overall_score"] = Num(IF diff > 1 THEN expected ELSE v)

\* what does hold of the correction: a constructed response carries the
\* provided value or the sum, the sum when the two are more than a tenth
\* apart, the provided value when they are less than a tenth apart
OverallScoreCorrectedOffTheBoundary ==
    (mOut # NoCall /\ mOut.kind = "return") =>
        LET v == mData.o["overall_score"].n
            expected == SumOfCategories(ScoresOf(mData), 1)
            diff == IF v > expected THEN v - expected ELSE expected - v IN
        /\ diff > 1 => mOut.v.o["overall_score"] = Num(expected)
        /\ diff < 1 => mOut.v.o["overall_score"] = Num(v)
        /\ mOut.v.o["overall_score"] \in {Num(v), Num(expected)}

\* C22: the construction succeeds for every report with five category
\* scores in [0,10], an overall_score in [0,50], at least one strength and
\* one weakness, a missing_elements list and a summary_evaluation of at least
\* 10 characters, with improvement_suggestions and without detailed_analysis.
C22_ConstructionSucceeds ==
    (/\ mOut # NoCall /\ HasStatedFields(mData)
     /\ mData.o["overall_score"].n \in 0..(Len(SCORE_CATEGORIES) * Tenths(MAX_SCORE))) =>
        mOut.kind = "return"

\* with a detailed_analysis of three texts such a report is constructed
ConstructionSucceedsWithAnalysis ==
    (/\ mOut # NoCall /\ HasStatedFields(mData)
     /\ mData.o["overall_score"].n \in 0..(Len(SCORE_CATEGORIES) * Tenths(MAX_SCORE))
     /\ "detailed_analysis" \in DOMAIN mData.o) =>
        mOut.kind = "return"

(***************************************************************************)
(* LLMEvaluator.evaluate: the attempt that ends the loop.                  *)
(***************************************************************************)
\* the attempts whose text the parser turned into a JSON object
ObjectAttempts == {i \in 1..Len(eLog) : eLog[i].parsed.t = "obj"}

\* C23: at the first attempt whose output the parser turns into a JSON object
\* (any object, also one with no fields) evaluate returns the validator's
\* result for that object; no attempt follows it, the heuristic fallback is
\* not consulted, and there are never more than max_retries attempts.
C23_FirstParsedObjectReturns ==
    /\ Len(eLog) <= eMaxRetries
    /\ ObjectAttempts # {} =>
         LET first == Min(ObjectAttempts) IN
         /\ Len(eLog) = first
         /\ ePc \in {"done", "idle"}
         /\ eOut = ValidateAndFix(eLog[first].parsed)

\* what does hold: an attempt whose parsed value is truthy and passes the
\* validator ends the call with the validator's report, and the attempts
\* never exceed max_retries
FirstValidatedAttemptReturns ==
    /\ Len(eLog) <= eMaxRetries
    /\ \A i \in 1..Len(eLog) :
         eLog[i].class = "validated" =>
            /\ i = Len(eLog)
            /\ ePc \in {"done", "idle"}
            /\ eOut = ValidateAndFix(eLog[i].parsed)

(***************************************************************************)
(* refine_structure: outputs without a top-level list of slides.           *)
(***************************************************************************)
\* the parsed output has a top-level list of slides
HasSlideList ==
    /\ ParsedOutput.t = "obj"
    /\ "slides" \in DOMAIN ParsedOutput.o
    /\ ParsedOutput.o["slides"].t = "list"

\* C24: refine_structure rejects every output whose parsed value lacks a
\* top-level list of slides (a value that is no object, an object whose slides
\* entry is no list): it returns the original structure with file_path None
\* and does not raise; no parse or format problem of the generated text leaves
\* refine_structure as an exception.
C24_NoSlideListIsRejectedWithoutRaising ==
    rPc = "done" =>
        /\ ~HasSlideList => rResult = Ret(RejectedResult(rGiven))
        /\ rResult.kind = "raise" => rResult.exc = "OSError"

\* what does hold: an output that is unparsable, falsy, or a list, a string
\* or an object that does not hold slides is rejected without raising
OutputWithoutSlidesMemberIsRejected ==
    (rPc = "done" /\ (~Truthy(ParsedOutput)
                        \/ (~PyInRaises(ParsedOutput) /\ ~PyIn("slides", ParsedOutput)))) =>
        rResult = Ret(RejectedResult(rGiven))

(***************************************************************************)
(* The scores of the heuristic scorer.                                     *)
(***************************************************************************)
\* C25: whenever generate_heuristic_evaluation returns, relevance is 15 times
\* the share of problem words found in the summary, kept within [4.0, 9.5]
\* and rounded to one decimal; technical_accuracy is 8.5 with the tech-depth
\* flag and 5.0 without, less 1.0 when the summary contains wrapper or simple;
\* completeness is 8.0 with the MVP flag and 4.0 without; structure is 4.0
\* plus the number of structural markers found, at most 9.0; clarity is 7.5;
\* overall_score is the sum of the five and lies in [20,50].
C25_HeuristicScoreFormulas ==
    (hCall = "generate_heuristic_evaluation" /\ hOut.kind = "return") =>
        LET sl == Lower(hSummary)
            scores == ScoresOf(hOut.v)
            nwords == Cardinality(ProblemWords(hPs))
            found == Cardinality(ProblemWords(hPs) \cap Words(sl))
            share == IF 150 * found < 40 * nwords THEN 40 * nwords
                     ELSE IF 150 * found > 95 * nwords THEN 95 * nwords
                     ELSE 150 * found
            off == scores["relevance"].n * nwords - share
            markers == CountIn(STRUCTURAL_MARKERS, sl) IN
        /\ 2 * off <= nwords /\ 0 - nwords <= 2 * off
        /\ scores["technical_accuracy"].n =
              (IF CountIn(TECH_KEYWORDS, sl) >= 3 THEN 85 ELSE 50)
                - (IF Contains(sl, "wrapper") \/ Contains(sl, "simple") THEN 10 ELSE 0)
        /\ scores["completeness"].n = (IF CountIn(MVP_KEYWORDS, sl) > 0 THEN 80 ELSE 40)
        /\ scores["structure"].n = Min({90, 40 + 10 * markers})
        /\ scores["clarity"].n = 75
        /\ DOMAIN scores = {SCORE_CATEGORIES[i] : i \in 1..Len(SCORE_CATEGORIES)}
        /\ hOut.v.o["overall_score"] = Num(SumOfCategories(scores, 1))
        /\ hOut.v.o["overall_score"].n \in 200..500

\* a report for a summary with three technologies that calls itself a simple
\* wrapper
C25_Witness ==
    /\ hCall = "generate_heuristic_evaluation" /\ hOut.kind = "return"
    /\ Contains(Lower(hSummary), "simple")
    /\ ScoresOf(hOut.v)["technical_accuracy"] = Num(75)

\* C26: for the problem statement of the scraper scenario and a summary of
\* the words python, requests, beautifulsoup, demo and architecture, the
\* heuristic scorer finds technical depth and an MVP and no business plan,
\* scores technical_accuracy 8.5 and completeness 8.0, and takes relevance
\* from the overlap of the problem word set build, web, scraper, e-commerce,
\* sites with the summary.
C26_ScraperScenarioScores ==
    (hCall = "generate_heuristic_evaluation" /\ hPs = ScenarioProblem
       /\ hSummary = ScenarioSummary) =>
        LET sl == Lower(hSummary) IN
        /\ hOut.kind = "return"
        /\ HasTechDepth(sl) /\ HasMvp(sl) /\ ~HasBizPlan(sl)
        /\ ScoresOf(hOut.v)["technical_accuracy"] = Num(85)
        /\ ScoresOf(hOut.v)["completeness"] = Num(80)
        /\ ProblemWords(hPs) = {"build", "web", "scraper", "e-commerce", "sites"}

\* what the scorer does find in the scenario: one technology, an MVP, no
\* business plan, technical_accuracy 5.0, completeness 8.0, relevance 4.0
ScraperScenarioAsScored ==
    (hCall = "generate_heuristic_evaluation" /\ hPs = ScenarioProblem
       /\ hSummary = ScenarioSummary) =>
        LET sl == Lower(hSummary) IN
        /\ hOut.kind = "return"
        /\ DetectedTech(sl) = <<"python">>
        /\ ~HasTechDepth(sl) /\ HasMvp(sl) /\ ~HasBizPlan(sl)
        /\ ScoresOf(hOut.v)["technical_accuracy"] = Num(50)
        /\ ScoresOf(hOut.v)["completeness"] = Num(80)
        /\ ScoresOf(hOut.v)["relevance"] = Num(40)
        /\ hOut.v.o["overall_score"] = Num(295)
        /\ ProblemWords(hPs) = {"build", "web", "scraper", "for", "e", "commerce", "sites"}

(***************************************************************************)
(* validate_and_fix_response applied to a report of the heuristic scorer.  *)
(***************************************************************************)
exceptFix == <<valVars, heurVars, evalVars, refVars, recVars, parseVars, combVars, orchVars,
              apiVars, detVars, respVars, srvVars, tmpVars>>

FixInit ==
    /\ ValIdle /\ HeurIdle /\ EvalIdle /\ RefIdle /\ LaterIdleExcept("fix")
    /\ \/ fPs \in ProblemStatements /\ fSummary \in Summaries
       \/ fPs = ScenarioProblem /\ fSummary = ScenarioSummary
    /\ fReport = NoCall /\ fFixed = NoCall

ScoreHeuristically ==
    /\ fReport = NoCall
    /\ fReport' = GenerateHeuristicEvaluation(fPs, fSummary)
    /\ UNCHANGED <<fPs, fSummary, fFixed, exceptFix>>

ValidateReport ==
    /\ fReport.kind = "return" /\ fFixed = NoCall
    /\ fFixed' = ValidateAndFix(fReport.v)
    /\ UNCHANGED <<fPs, fSummary, fReport, exceptFix>>

FixNext == ScoreHeuristically \/ ValidateReport

SpecFixedPoint == FixInit /\ [][FixNext]_vars

\* C29: a report of the heuristic scorer is a fixed point of the validator:
\* validate_and_fix_response returns it equal in every field, with no
\* category defaulted or clamped, overall_score unchanged, detailed_analysis
\* and summary_evaluation kept.
C29_HeuristicReportIsValidatorFixedPoint ==
    fFixed # NoCall => fFixed = Ret(fReport.v)

\* C29 witness: a report with a relevance above the floor, technical depth
\* and an overall_score above 30 was validated and came back as it was.
C29_Witness ==
    /\ fFixed.kind = "return" /\ fFixed.v = fReport.v
    /\ ScoresOf(fReport.v)["relevance"].n > 40
    /\ ScoresOf(fReport.v)["technical_accuracy"] = Num(85)
    /\ fReport.v.o["overall_score"].n > 300

(***************************************************************************)
(* The server of main.py: requests handled on one event loop.  A handler   *)
(* is a coroutine: once it runs it keeps the loop until it awaits or       *)
(* returns; get_orchestrator, get_reconstructor and the load_model methods *)
(* of the components each test their handle and then set it.               *)
(***************************************************************************)
\* the requests in flight at most
NumRequests == 2
Requests == 1..NumRequests

Components == <<"summarizer", "semantic_scorer", "llm_evaluator">>
Handles == {"orchestrator", "reconstructor"} \cup {Components[i] : i \in 1..Len(Components)}

\* the summaries of /reconstruct agree on their first 20 characters, the
\* messages of /reconstruct/chat do not; /evaluate generates no deck
RequestTexts(kind) ==
    CASE kind = "reconstruct" -> {"A scraper for online shops, with a demo",
                                  "A scraper for online shops, with a team"}
      [] kind = "chat"        -> {"Add a market slide", "Add a team slide"}
      [] kind = "evaluate"    -> {""}

GeneratedNames ==
    {ReconstructedFileName(t) : t \in RequestTexts("reconstruct")}
       \cup {RefinedFileName(t) : t \in RequestTexts("chat")}

NewRequest ==
    [kind |-> "", text |-> "", pc |-> "new", stage |-> 1, orch |-> 0, rec |-> 0,
     file |-> "", met |-> {}, early |-> FALSE, status |-> 0]

\* a slip that lets the loop go at every step, as handlers run in threads would
SuspendedAnywhere(pc) == TRUE

\* where a handler does not hold the loop: before it starts, at the await of
\* line 152, and once it has returned
Suspended(pc) == pc \in {"new", "read", "handled", "responded"}

Runs(r) == sLoop \in {0, r}
Release(r, pc) == IF Suspended(pc) THEN 0 ELSE r
InFlight(q) == sReq[q].pc \notin {"new", "responded"}

\* get_orchestrator is called by /evaluate directly, by the other two
\* through get_reconstructor (line 66)
AfterOrchestrator(kind) == IF kind = "evaluate" THEN "loadCheck" ELSE "recCreate"

exceptSrv == <<valVars, heurVars, evalVars, refVars, recVars, parseVars, combVars, orchVars,
              apiVars, detVars, respVars, fixVars, tmpVars>>

SrvInit ==
    /\ ValIdle /\ HeurIdle /\ EvalIdle /\ RefIdle /\ LaterIdleExcept("srv")
    /\ sLoop = 0 /\ orchestrator = 0 /\ reconstructor = 0
    /\ sModels = [o \in Requests |-> [c \in Handles \ {"orchestrator", "reconstructor"} |-> 0]]
    /\ sInits = [h \in Handles |-> 0]
    /\ sReq = [r \in Requests |-> NewRequest]
    /\ sGenerated = [n \in GeneratedNames |-> 0]

\* a client sends a request; /evaluate then awaits the upload (line 152)
RequestArrives ==
    \E r \in Requests, kind \in {"evaluate", "reconstruct", "chat"} :
     \E text \in RequestTexts(kind) :
       /\ sReq[r].pc = "new"
       /\ sReq' = [q \in Requests |->
                     IF q = r
                     THEN [NewRequest EXCEPT !.kind = kind, !.text = text,
                              !.pc = IF kind = "evaluate" THEN "read" ELSE "recCheck",
                              !.met = {p \in Requests : InFlight(p)},
                              !.early = (orchestrator = 0)]
                     ELSE IF InFlight(q) THEN [sReq[q] EXCEPT !.met = @ \cup {r}]
                     ELSE sReq[q]]
       /\ UNCHANGED <<sLoop, orchestrator, reconstructor, sModels, sInits, sGenerated, exceptSrv>>

\* the upload has been read: the /evaluate handler goes on to line 187
FileRead ==
    \E r \in Requests :
       /\ sReq[r].pc = "read" /\ Runs(r)
       /\ sReq' = [sReq EXCEPT ![r].pc = "orchCheck"]
       /\ sLoop' = Release(r, "orchCheck")
       /\ UNCHANGED <<orchestrator, reconstructor, sModels, sInits, sGenerated, exceptSrv>>

\* get_reconstructor, line 64
CheckReconstructor ==
    \E r \in Requests :
       /\ sReq[r].pc = "recCheck" /\ Runs(r)
       /\ LET pc == IF reconstructor = 0 THEN "orchCheck" ELSE "generate" IN
          /\ sReq' = [sReq EXCEPT ![r].pc = pc, ![r].rec = reconstructor]
          /\ sLoop' = Release(r, pc)
       /\ UNCHANGED <<orchestrator, reconstructor, sModels, sInits, sGenerated, exceptSrv>>

\* get_orchestrator, line 56, and line 59 when the handle is set
CheckOrchestrator ==
    \E r \in Requests :
       /\ sReq[r].pc = "orchCheck" /\ Runs(r)
       /\ LET pc == IF orchestrator = 0 THEN "orchCreate" ELSE AfterOrchestrator(sReq[r].kind) IN
          /\ sReq' = [sReq EXCEPT ![r].pc = pc, ![r].orch = orchestrator]
          /\ sLoop' = Release(r, pc)
       /\ UNCHANGED <<orchestrator, reconstructor, sModels, sInits, sGenerated, exceptSrv>>

\* get_orchestrator, lines 57-59
CreateOrchestrator ==
    \E r \in Requests :
       /\ sReq[r].pc = "orchCreate" /\ Runs(r)
       /\ LET n == sInits["orchestrator"] + 1
              pc == AfterOrchestrator(sReq[r].kind) IN
          /\ sInits' = [sInits EXCEPT !["orchestrator"] = n]
          /\ orchestrator' = n
          /\ sReq' = [sReq EXCEPT ![r].pc = pc, ![r].orch = n]
          /\ sLoop' = Release(r, pc)
       /\ UNCHANGED <<reconstructor, sModels, sGenerated, exceptSrv>>

\* get_reconstructor, lines 68-82
CreateReconstructor ==
    \E r \in Requests :
       /\ sReq[r].pc = "recCreate" /\ Runs(r)
       /\ LET n == sInits["reconstructor"] + 1 IN
          /\ sInits' = [sInits EXCEPT !["reconstructor"] = n]
          /\ reconstructor' = n
          /\ sReq' = [sReq EXCEPT ![r].pc = "generate", ![r].rec = n]
          /\ sLoop' = Release(r, "generate")
       /\ UNCHANGED <<orchestrator, sModels, sGenerated, exceptSrv>>

\* what follows the load of the component of this stage: the next
\* component, or the report
AfterStage(q) ==
    IF q.stage = Len(Components) THEN [q EXCEPT !.pc = "handled", !.status = 200]
    ELSE [q EXCEPT !.pc = "loadCheck", !.stage = @ + 1]

\* load_model of a component: the test of its handle
CheckModel ==
    \E r \in Requests :
       /\ sReq[r].pc = "loadCheck" /\ Runs(r)
       /\ LET q == sReq[r]
              next == IF sModels[q.orch][Components[q.stage]] = 0
                      THEN [q EXCEPT !.pc = "loadSet"] ELSE AfterStage(q) IN
          /\ sReq' = [sReq EXCEPT ![r] = next]
          /\ sLoop' = Release(r, next.pc)
       /\ UNCHANGED <<orchestrator, reconstructor, sModels, sInits, sGenerated, exceptSrv>>

\* load_model of a component: the model is loaded and the handle set, or the
\* load raises and the request fails
LoadModel ==
    \E r \in Requests, loaded \in BOOLEAN :
       /\ sReq[r].pc = "loadSet" /\ Runs(r)
       /\ LET q == sReq[r]
              c == Components[q.stage]
              next == IF loaded THEN AfterStage(q)
                      ELSE [q EXCEPT !.pc = "handled", !.status = 500] IN
          /\ sInits' = IF loaded THEN [sInits EXCEPT ![c] = @ + 1] ELSE sInits
          /\ sModels' = IF loaded THEN [sModels EXCEPT ![q.orch][c] = sInits[c] + 1] ELSE sModels
          /\ sReq' = [sReq EXCEPT ![r] = next]
          /\ sLoop' = Release(r, next.pc)
       /\ UNCHANGED <<orchestrator, reconstructor, sGenerated, exceptSrv>>

\* reconstruct_presentation (lines 44-45) or refine_structure (lines 267-268)
\* writes its deck under the name made of the hash, or fails before that
GenerateDeck ==
    \E r \in Requests, written \in BOOLEAN :
       /\ sReq[r].pc = "generate" /\ Runs(r)
       /\ LET name == IF sReq[r].kind = "reconstruct" THEN ReconstructedFileName(sReq[r].text)
                      ELSE RefinedFileName(sReq[r].text) IN
          /\ sGenerated' = IF written THEN [sGenerated EXCEPT ![name] = r] ELSE sGenerated
          /\ sReq' = [sReq EXCEPT ![r].pc = "handled",
                                  ![r].file = IF written THEN name ELSE "",
                                  ![r].status = IF written THEN 200 ELSE 500]
       /\ sLoop' = Release(r, "handled")
       /\ UNCHANGED <<orchestrator, reconstructor, sModels, sInits, exceptSrv>>

\* the response is sent
Respond ==
    \E r \in Requests :
       /\ sReq[r].pc = "handled" /\ Runs(r)
       /\ sReq' = [sReq EXCEPT ![r].pc = "responded"]
       /\ sLoop' = Release(r, "responded")
       /\ UNCHANGED <<orchestrator, reconstructor, sModels, sInits, sGenerated, exceptSrv>>

SrvNext ==
    \/ RequestArrives \/ FileRead \/ CheckReconstructor \/ CheckOrchestrator
    \/ CreateOrchestrator \/ CreateReconstructor \/ CheckModel \/ LoadModel
    \/ GenerateDeck \/ Respond

SpecServer == SrvInit /\ [][SrvNext]_vars

C28_GeneratedFileIsItsRequestsOwn ==
    \A r \in Requests :
       sReq[r].file # "" => sGenerated[sReq[r].file] \notin sReq[r].met

\* requests whose texts differ within the first 20 characters, and requests
\* of different kinds, keep their files apart
DecksOfDifferentPrefixesKeptApart ==
    \A r \in Requests :
       sReq[r].file # "" =>
          \A q \in sReq[r].met :
             (sReq[q].kind # sReq[r].kind
                \/ Take(sReq[q].text, 20) # Take(sReq[r].text, 20)) =>
                sGenerated[sReq[r].file] # q

(***************************************************************************)
(* The temporary copy of an upload: the /evaluate handler (main.py         *)
(* 174-210) and EvaluationOrchestrator.evaluate_from_bytes.  os.remove is  *)
(* taken to succeed on a file that exists.                                 *)
(***************************************************************************)
\* the file names evaluate_from_bytes is given; its temp_dir is /tmp
UploadNames == {"deck.pptx", "notes.txt"}
TempPath(temp_dir, filename) == temp_dir \o "/" \o filename

\* the name NamedTemporaryFile makes up: one that no file has
FreshNames == {"/tmp/tmpa1.pptx", "/tmp/tmpb2.pptx"}

\* a slip that removes the file at the end of the try block and not in finally
RemoveTempOnReturnOnly(disk, path, out) ==
    IF out.kind = "return" THEN disk \ {path} ELSE disk

\* the finally blocks (main.py 203-210, evaluation_orchestrator.py 144-148):
\* whatever the outcome, the file is removed if it exists
RemoveTemp(disk, path, out) == disk \ {path}

exceptTmp == <<valVars, heurVars, evalVars, refVars, recVars, parseVars, combVars, orchVars,
              apiVars, detVars, respVars, fixVars, srvVars>>

\* files left in /tmp by others may have the name of an upload
TmpInit ==
    /\ ValIdle /\ HeurIdle /\ EvalIdle /\ RefIdle /\ LaterIdleExcept("tmp")
    /\ tEntry = "" /\ tPc = "idle" /\ tName = "" /\ tPs = "" /\ tOut = NoCall
    /\ tDisk \in SUBSET {TempPath("/tmp", n) : n \in UploadNames}

\* main.py 178-180, for a request that passed the checks of lines 145-172
HandlerWritesUpload ==
    /\ tPc = "idle"
    /\ \E ps \in {p \in FormProblemStatements : Rejection("deck.pptx", 1, p) = ""},
          name \in FreshNames \ tDisk :
         /\ tEntry' = "handler" /\ tPs' = ps /\ tName' = name
         /\ tDisk' = tDisk \cup {name}
    /\ tPc' = "written" /\ tOut' = NoCall
    /\ UNCHANGED exceptTmp

\* evaluation_orchestrator.py 131-136
FromBytesWritesUpload ==
    /\ tPc = "idle"
    /\ \E ps \in FormProblemStatements, filename \in UploadNames :
         /\ tEntry' = "from_bytes" /\ tPs' = ps /\ tName' = TempPath("/tmp", filename)
         /\ tDisk' = tDisk \cup {TempPath("/tmp", filename)}
    /\ tPc' = "written" /\ tOut' = NoCall
    /\ UNCHANGED exceptTmp

\* the pipeline runs on the temporary file and returns a report or raises;
\* the handler then builds its response model, which may raise as well
PipelineRuns ==
    /\ tPc = "written"
    /\ \E out \in PipelineOutcomes(tPs) :
         tOut' \in (IF tEntry = "handler" /\ out.kind = "return"
                    THEN EvaluationResponse(out.v) ELSE {out})
    /\ tPc' = "finally"
    /\ UNCHANGED <<tEntry, tName, tPs, tDisk, exceptTmp>>

CleanUp ==
    /\ tPc = "finally"
    /\ tDisk' = RemoveTemp(tDisk, tName, tOut)
    /\ tPc' = "complete"
    /\ UNCHANGED <<tEntry, tName, tPs, tOut, exceptTmp>>

\* the call has completed; the next one may begin
CallCompleted ==
    /\ tPc = "complete"
    /\ tPc' = "idle"
    /\ UNCHANGED <<tEntry, tName, tPs, tDisk, tOut, exceptTmp>>

TmpNext ==
    \/ HandlerWritesUpload \/ FromBytesWritesUpload \/ PipelineRuns \/ CleanUp
    \/ CallCompleted

SpecTempFile == TmpInit /\ [][TmpNext]_vars

====
